---- MODULE Spec2Model ----
(***************************************************************************)
(* Affiplayer: the full-screen player (gesture handlers, keyboard          *)
(* shortcuts, sleep timer, progress persistence) and the App shell         *)
(* (remote-catalog load with its cache, watch history, favourites, the     *)
(* merged catalog, restricted mode).                                       *)
(*                                                                         *)
(* Units.  Wall-clock values (Date.now(), timer delays) are milliseconds,   *)
(* and every stored timestamp is kept relative to the current time: now    *)
(* is 0, a time in the past is negative, a timer deadline is positive,     *)
(* and the passing of time (Tick) shifts them all.  A timestamp older than *)
(* the longest delay it is compared with stays at that age.                *)
(* Media times are whole seconds.  volume and brightness are percent       *)
(* (the code's 0..1 times 100); playbackRate and scale are hundredths      *)
(* (100 is the code's 1.0).  initialValueRef is the code's raw number      *)
(* times 100, so that a value stored for one gesture type and read for     *)
(* another is read as the code reads it.                                   *)
(*                                                                         *)
(* Rendering.  Every handler runs against the state of the latest render   *)
(* (React flushes the updates of an event before the next event), so a     *)
(* handler is one atomic action.  Timer callbacks are separate actions.    *)
(* The heart button of the list view is the exception: two clicks may run  *)
(* before App renders again, so the render that gives the list view its    *)
(* favorites is a step of its own (RenderList).                            *)
(*                                                                         *)
(* Variants.  The source holds App three times.  The catalog cache, the    *)
(* watch history and the favourites are those of the App with the cache;   *)
(* restricted mode, its PIN and the filtered catalog are those of the App  *)
(* with restricted mode, which has neither cache nor history.              *)
(***************************************************************************)
EXTENDS Integers, Sequences, FiniteSets, TLC

VARIABLES
    state,               \* PlayerState (useState)
    showSettings,
    gesture,             \* null or [type, value]
    doubleTapAnimation,
    isLongPressing,
    lastTapRef,
    touchStartRef,       \* null or [x, y, time]
    pinchStartDistRef,
    initialScaleRef,
    initialValueRef,
    longPressTimerRef,   \* null or the handle of the long-press timeout
    savedSpeedRef,
    isLongPressingRef,
    video,               \* the media element behind videoRef
    timers,              \* pending setTimeout callbacks
    ptr,                 \* environment: the pointer that is down (where it went down
                         \* and, if observed, the offset of its latest move), or null
    prevDown,            \* time of the previous pointer-down event, or null
    sess,                \* observations of the current pointer session
    budget,              \* environment: user inputs still to come
    sleep,               \* observations of the armed sleep timer
    progressHistory,     \* App: id -> persisted playhead
    currentVideo,        \* App: id of the item in the player, or null
    history,             \* App: watch history, list of ids
    lastSel,             \* observation: the ids selected, latest selection first
    settings,            \* App: GlobalSettings (the fields the load reads)
    sheetVideos,         \* App: remote-catalog items shown
    loadingSheets,
    sheetCache,          \* localStorage 'affi_sheet_cache': null or [timestamp, data]
    loads,               \* loadSheets calls in flight
    toasts,              \* number of error toasts raised by loadSheets
    lastLoad,            \* observations of the latest loadSheets call
    lastDone,            \* observations of the loadSheets call that completed last
    refreshed,           \* observation: a manual refresh since the latest load
    favorites,           \* App: favourite ids (useState)
    favoritesRendered,   \* the favorites of the render whose handlers are bound
    favObs,              \* observation: the latest pair of toggles of one id
    pinModal,            \* VideoList: the PIN dialog, and the latest event on it
    storage,             \* localStorage: the item under each key App reads at mount
    boot,                \* observation: what the latest mount of App read and made of it
    localVideos,         \* App: ids of the imported files
    curPos,              \* place in allVideos of the object in currentVideo, or 0
    endObs               \* observation: the latest ended event

playerVars == <<state, showSettings, gesture, doubleTapAnimation,
                isLongPressing, lastTapRef, touchStartRef, pinchStartDistRef,
                initialScaleRef, initialValueRef, longPressTimerRef,
                savedSpeedRef, isLongPressingRef, video, timers, ptr,
                prevDown, sess, budget, sleep>>
catalogVars == <<settings, sheetVideos, loadingSheets, sheetCache, loads,
                 toasts, lastLoad, lastDone, refreshed>>
storeVars == <<storage, boot>>
listVars == <<favorites, favoritesRendered, favObs, pinModal, storeVars>>
mergeVars == <<localVideos, curPos, endObs>>
appVars == <<progressHistory, currentVideo, history, lastSel, catalogVars, listVars,
             mergeVars>>
vars == <<playerVars, appVars>>

\* JavaScript null: for a string, for a number (no id, minute count,
\* timestamp or timer handle is -1: timestamps are multiples of the clock
\* step), and for the nullable records.
Null == "null"
Nil == 0 - 1
NoGesture == [type |-> "NONE", value |-> 0]
NoTouch == [x |-> Nil, y |-> Nil, time |-> Nil]
NoPointer == [x |-> Nil, y |-> Nil, n |-> 0, dx |-> 0, dy |-> 0, k |-> 0]
NoCache == [timestamp |-> Nil, data |-> << >>]

Max(a, b) == IF a >= b THEN a ELSE b
Min(a, b) == IF a <= b THEN a ELSE b
Abs(a) == IF a >= 0 THEN a ELSE 0 - a

(***************************************************************************)
(* Program constants                                                       *)
(***************************************************************************)
DOUBLE_TAP_DELAY == 300
LONG_PRESS_DELAY == 500
TAP_MAX_DURATION == 200
GESTURE_OVERLAY_DELAY == 1000
DOUBLE_TAP_CUE_DELAY == 600
LONG_PRESS_CANCEL_PX == 10
GESTURE_MIN_PX == 20
LONG_PRESS_RATE == 200
SEEK_SPAN == 90
VOLUME_STEP == 10
HISTORY_CAP == 50
CACHE_DURATION == 3600000

NONE == "NONE"
VOLUME == "VOLUME"
BRIGHTNESS == "BRIGHTNESS"
SEEK == "SEEK"
ZOOM == "ZOOM"
AxisGestures == {SEEK, VOLUME, BRIGHTNESS}

(***************************************************************************)
(* Bounds and environment                                                  *)
(***************************************************************************)
\* User inputs in one run: pointer sessions, key presses, and clicks on the
\* controls (lock, settings panel, speed).
MaxSessions == 3
MaxDrags == 2
MaxKeys == 1
MaxClicks == 1
\* Duration of the media, in seconds, once metadata has loaded.
MediaDuration == 30
\* containerRef.current.clientWidth / clientHeight.
Viewport == [width |-> 90, height |-> 60]
\* Date.now(), and the granularity of the modelled clock (ms).
Clock == [now |-> 0, step |-> 100]
now == Clock.now
\* lastTapRef's initial and reset value 0 (the epoch): no tap in the window.
LongAgo == now - DOUBLE_TAP_DELAY
\* A timestamp ts after one clock step, kept within the window it is used in.
Aged(ts, window) == IF ts = Nil THEN Nil ELSE Max(ts - Clock.step, now - window)
\* Where a pointer goes down (left zone, centre band, right zone) and the
\* positions it is dragged to, as offsets <<dx, dy>> in screen coordinates.
DownPoints == {<<20, 30>>, <<50, 30>>, <<70, 30>>}
DragOffsets == {<<10, 0>>, <<20, 0>>, <<30, 0>>, <<-30, 0>>, <<0, -30>>, <<0, 30>>}
VolumeKeys == {"ArrowUp", "ArrowDown"}
SeekKeys == {"ArrowLeft", "ArrowRight"}
\* Finger distance at the start of a pinch and the distances it moves to.
PinchStart == [dist |-> 100]
PinchDists == {50, 200}
\* Playback rates the controls can select (cycleSpeed).
Speeds == {100, 150}
ResumeTimes == {5, 15}
SleepMinutes == {15, 30, 45, 60}

\* The source URLs the user enters, the ids the user selects, a full stored
\* history, and the step of the catalog's clock.
MaxUrls == 2
MaxLoads == 2
Urls == {"sheetA", "sheetB"}
SelectIds == {1, 2, 50, 51, 52}
FullHistory == [i \in 1 .. HISTORY_CAP |-> i]
\* The ids whose heart button is clicked, and the longest favourites list.
FavIds == {1, 2}
MaxFavs == 3
\* The most network streams added.
MaxStreams == 2
CatalogClock == [step |-> 1800000]

Timer(kind, due, hide) == [kind |-> kind, due |-> due, hide |-> hide]

(***************************************************************************)
(* Helpers of the player                                                   *)
(***************************************************************************)
\* The media element clamps an assigned currentTime to its seekable range.
ElementClamp(t) ==
    IF video.duration = 0 THEN Max(0, t) ELSE Max(0, Min(video.duration, t))

\* App.handleUpdateProgress, reached through the onUpdateProgress prop.
handleUpdateProgress(time) ==
    IF currentVideo # Nil
    THEN [progressHistory EXCEPT ![currentVideo] = time]
    ELSE progressHistory

\* resetControlsTimer: the timeout part (showControls is set by the caller's
\* state update).  T is the timer set the caller has built so far.  The
\* delay of this timeout (CONTROLS_HIDE_DELAY, ten times the longest
\* gesture delay) is not counted down: its callback may run at any time
\* after it was set, which includes every time at which it can run.
resetControlsTimer(T) ==
    {t \in T : t.kind # "controls"} \cup
    (IF state.playing
     THEN {Timer("controls", now, ~state.isLocked /\ ~showSettings)}
     ELSE {})

clearTimeout(T, kind, handle) ==
    IF handle = Nil THEN T ELSE {t \in T : ~(t.kind = kind /\ t.due = handle)}

\* handleSeek(time), given the state record S and the timer set T that the
\* calling handler has built so far.
handleSeek(time, S, T) ==
    /\ video' = [video EXCEPT !.currentTime = ElementClamp(time)]
    /\ state' = [S EXCEPT !.currentTime = time, !.showControls = TRUE]
    /\ timers' = resetControlsTimer(T)
    /\ progressHistory' = handleUpdateProgress(time)

\* togglePlay: pause() or play() on the element; the mirrored flag follows
\* with the element's pause / playing event (MediaEvent).
togglePlay(v) == [v EXCEPT !.paused = state.playing]

\* The classification step of handleTouchMove: cur is gesture?.type || NONE.
\* The same with the threshold itself counted as movement.
Classify_fromThreshold(cur, deltaX, deltaY, startX) ==
    IF cur # NONE THEN cur
    ELSE IF Abs(deltaX) > Abs(deltaY)
         THEN (IF Abs(deltaX) >= GESTURE_MIN_PX THEN SEEK ELSE NONE)
         ELSE (IF Abs(deltaY) >= GESTURE_MIN_PX
               THEN (IF startX * 2 < Viewport.width THEN BRIGHTNESS ELSE VOLUME)
               ELSE NONE)

Classify(cur, deltaX, deltaY, startX) ==
    IF cur # NONE THEN cur
    ELSE IF Abs(deltaX) > Abs(deltaY)
         THEN (IF Abs(deltaX) > GESTURE_MIN_PX THEN SEEK ELSE NONE)
         ELSE (IF Abs(deltaY) > GESTURE_MIN_PX
               THEN (IF startX * 2 < Viewport.width THEN BRIGHTNESS ELSE VOLUME)
               ELSE NONE)

InLeftZone(x) == x * 10 < Viewport.width * 3
InRightZone(x) == x * 10 > Viewport.width * 7

\* Observations of a pointer session, started at every pointer-down event.
\*   lit     the pointer-down is in the left zone, within DOUBLE_TAP_DELAY of
\*           the previous pointer-down event, player unlocked, settings closed
\*   rec     the same, counted from the latest pointer-down that was handled
\*           while unlocked and was not itself a double-tap skip (tap)
\*   plain   a one-point pointer-down handled as a normal touch start
\*   seeks, seekTo, toggles   handleSeek calls, the last target and
\*           togglePlay calls by the pointer handlers of this session
\*   applied a move of this session has applied an axis gesture
\*   late    it did so after the long-press had engaged
\*   type    the gesture type the latest classifying move worked with
\*   engaged the long-press callback has boosted the rate in this session
\*   far     the pointer has moved more than LONG_PRESS_CANCEL_PX before that
\*   moved   a pointer-move event has occurred in this session
\*   start   the mirrored time at the first move that worked with SEEK
\*   pending start plus the seek delta of the latest such move, clamped to
\*           [0, duration]
NewSession(x, n, t) ==
    [active |-> TRUE, t0 |-> t, x0 |-> x, n |-> n,
     lit |-> /\ InLeftZone(x) /\ prevDown # Nil
             /\ t - prevDown < DOUBLE_TAP_DELAY
             /\ ~state.isLocked /\ ~showSettings,
     rec |-> /\ InLeftZone(x) /\ sess.tap # Nil
             /\ t - sess.tap < DOUBLE_TAP_DELAY
             /\ ~state.isLocked /\ ~showSettings,
     plain |-> FALSE, tap |-> sess.tap,
     target |-> Max(0, state.currentTime - settings.seekTime),
     seeks |-> 0, seekTo |-> 0, toggles |-> 0, applied |-> FALSE,
     late |-> FALSE,
     type |-> NONE, engaged |-> FALSE, far |-> FALSE, moved |-> FALSE,
     settingsOpen |-> showSettings, locked |-> state.isLocked,
     rate0 |-> state.playbackRate, start |-> Nil, pending |-> 0]


\* No pointer session to observe; tap as in NewSession.
NoSession(tap) ==
    [active |-> FALSE, t0 |-> now, x0 |-> 0, n |-> 0, lit |-> FALSE,
     rec |-> FALSE, plain |-> FALSE, tap |-> tap, target |-> 0,
     seeks |-> 0, seekTo |-> 0, toggles |-> 0, applied |-> FALSE,
     late |-> FALSE,
     type |-> NONE, engaged |-> FALSE, far |-> FALSE, moved |-> FALSE,
     settingsOpen |-> FALSE, locked |-> FALSE, rate0 |-> 0,
     start |-> Nil, pending |-> 0]

refVars == <<lastTapRef, touchStartRef, pinchStartDistRef, initialScaleRef,
             initialValueRef, longPressTimerRef, savedSpeedRef,
             isLongPressingRef>>
uiVars == <<showSettings, gesture, doubleTapAnimation, isLongPressing>>
obsVars == <<sleep>>
Spend(what) == budget' = [budget EXCEPT ![what] = @ - 1]

(***************************************************************************)
(* Pointer handlers                                                        *)
(***************************************************************************)
\* The seek target of a double tap on side "left" or "right".
SkipTarget_unclamped(side) ==
    IF side = "left"
    THEN state.currentTime - settings.seekTime
    ELSE state.currentTime + settings.seekTime

SkipTarget(side) ==
    IF side = "left"
    THEN Max(0, state.currentTime - settings.seekTime)
    ELSE Min(state.duration, state.currentTime + settings.seekTime)

\* The double-tap branch of handleTouchStart, for side "left" or "right".
DoubleTapSkip(side, S) ==
    /\ handleSeek(SkipTarget(side),
                  state,
                  clearTimeout(timers \cup {Timer("cue", now + DOUBLE_TAP_CUE_DELAY, FALSE)},
                               "longPress", longPressTimerRef))
    /\ doubleTapAnimation' = side
    /\ lastTapRef' = LongAgo
    /\ sess' = [S EXCEPT !.seeks = @ + 1, !.tap = Nil, !.seekTo = SkipTarget(side)]
    /\ UNCHANGED <<touchStartRef, pinchStartDistRef, initialScaleRef,
                   initialValueRef, longPressTimerRef, savedSpeedRef,
                   isLongPressingRef, showSettings, gesture, isLongPressing>>

\* The rest of handleTouchStart ("Normal Touch Start").
NormalTouchStart(x, y, n, S) ==
    /\ lastTapRef' = now
    /\ state' = [state EXCEPT !.showControls = TRUE]
    /\ touchStartRef' = [x |-> x, y |-> y, time |-> now]
    /\ IF n = 2
       THEN /\ pinchStartDistRef' = PinchStart.dist
            /\ initialScaleRef' = state.scale
            /\ gesture' = [type |-> ZOOM, value |-> state.scale]
            /\ timers' = resetControlsTimer(timers)
            /\ sess' = [S EXCEPT !.tap = now]
            /\ UNCHANGED <<savedSpeedRef, longPressTimerRef>>
       ELSE /\ savedSpeedRef' = state.playbackRate
            /\ longPressTimerRef' = now + LONG_PRESS_DELAY
            /\ timers' = resetControlsTimer(timers) \cup
                           {Timer("longPress", now + LONG_PRESS_DELAY, FALSE)}
            /\ sess' = [S EXCEPT !.tap = now, !.plain = TRUE]
            /\ UNCHANGED <<pinchStartDistRef, initialScaleRef, gesture>>
    /\ UNCHANGED <<initialValueRef, isLongPressingRef, showSettings,
                   doubleTapAnimation, isLongPressing, video, progressHistory>>

IsDoubleTap == now - lastTapRef < DOUBLE_TAP_DELAY /\ ~showSettings

\* The same without the test of the lock.
handleTouchStart_unlocked(x, y, n) ==
    LET S == NewSession(x, n, now) IN
    IF IsDoubleTap /\ InLeftZone(x) THEN DoubleTapSkip("left", S)
    ELSE IF IsDoubleTap /\ InRightZone(x) THEN DoubleTapSkip("right", S)
    ELSE NormalTouchStart(x, y, n, S)

handleTouchStart(x, y, n) ==
    LET S == NewSession(x, n, now) IN
    IF state.isLocked
    THEN /\ sess' = S
         /\ UNCHANGED <<state, video, timers, progressHistory, refVars, uiVars>>
    ELSE IF IsDoubleTap /\ InLeftZone(x) THEN DoubleTapSkip("left", S)
    ELSE IF IsDoubleTap /\ InRightZone(x) THEN DoubleTapSkip("right", S)
    ELSE NormalTouchStart(x, y, n, S)

\* The pointer is more than LONG_PRESS_CANCEL_PX away from where it went down.
MovedFar(x, y) ==
    Abs(x - ptr.x) > LONG_PRESS_CANCEL_PX \/ Abs(ptr.y - y) > LONG_PRESS_CANCEL_PX

\* The guard of handleTouchMove after the long-press cancellation.
MoveSuppressed == isLongPressingRef

handleTouchMove(x, y, n, dist) ==
    IF state.isLocked \/ touchStartRef = NoTouch \/ showSettings
    THEN /\ sess' = [sess EXCEPT !.moved = TRUE,
                                  !.far = @ \/ (MovedFar(x, y) /\ ~sess.engaged)]
         /\ UNCHANGED <<state, video, timers, progressHistory, refVars, uiVars>>
    ELSE
    LET deltaX == x - touchStartRef.x
        deltaY == touchStartRef.y - y
        far == Abs(deltaX) > LONG_PRESS_CANCEL_PX \/ Abs(deltaY) > LONG_PRESS_CANCEL_PX
        T1 == IF far THEN clearTimeout(timers, "longPress", longPressTimerRef) ELSE timers
        ref1 == IF far /\ ~isLongPressingRef THEN Nil ELSE longPressTimerRef
        cur == IF gesture = NoGesture THEN NONE ELSE gesture.type
        currentGesture == Classify(cur, deltaX, deltaY, touchStartRef.x)
        iv(fresh) == IF gesture = NoGesture THEN fresh ELSE initialValueRef
        level(base) == Max(0, Min(100, (base + (deltaY * 100) \div Viewport.height)))
        seekDelta == (deltaX * SEEK_SPAN) \div Viewport.width
        S1 == [sess EXCEPT !.moved = TRUE, !.far = @ \/ (MovedFar(x, y) /\ ~sess.engaged)]
        dragStart == IF sess.start = Nil THEN state.currentTime ELSE sess.start
    IN
    /\ timers' = T1
    /\ longPressTimerRef' = ref1
    /\ UNCHANGED <<lastTapRef, touchStartRef, pinchStartDistRef, initialScaleRef,
                   savedSpeedRef, isLongPressingRef, showSettings,
                   doubleTapAnimation, isLongPressing, progressHistory>>
    /\ IF MoveSuppressed
       THEN /\ sess' = S1
            /\ UNCHANGED <<state, video, gesture, initialValueRef>>
       ELSE IF n = 2
       THEN /\ state' = [state EXCEPT !.scale =
                           Min(Max(50, (initialScaleRef * dist) \div pinchStartDistRef), 400)]
            /\ sess' = S1
            /\ UNCHANGED <<video, gesture, initialValueRef>>
       ELSE IF currentGesture = BRIGHTNESS
       THEN /\ initialValueRef' = iv(state.brightness)
            /\ state' = [state EXCEPT !.brightness = level(iv(state.brightness))]
            /\ gesture' = [type |-> BRIGHTNESS, value |-> level(iv(state.brightness))]
            /\ sess' = [S1 EXCEPT !.type = BRIGHTNESS, !.applied = TRUE, !.late = sess.engaged]
            /\ UNCHANGED video
       ELSE IF currentGesture = VOLUME
       THEN /\ initialValueRef' = iv(state.volume)
            /\ video' = [video EXCEPT !.volume = level(iv(state.volume))]
            /\ state' = [state EXCEPT !.volume = level(iv(state.volume))]
            /\ gesture' = [type |-> VOLUME, value |-> level(iv(state.volume))]
            /\ sess' = [S1 EXCEPT !.type = VOLUME, !.applied = TRUE, !.late = sess.engaged]
       ELSE IF currentGesture = SEEK
       THEN /\ initialValueRef' = iv(state.currentTime * 100)
            /\ gesture' = [type |-> SEEK,
                           value |-> Max(0, Min(state.duration,
                               (iv(state.currentTime * 100) + seekDelta * 100) \div 100))]
            /\ sess' = [S1 EXCEPT !.type = SEEK, !.applied = TRUE, !.late = sess.engaged,
                                   !.start = dragStart,
                                   !.pending = Max(0, Min(state.duration,
                                       dragStart + ((x - ptr.x) * SEEK_SPAN) \div Viewport.width))]
            /\ UNCHANGED <<state, video>>
       ELSE /\ sess' = S1
            /\ UNCHANGED <<state, video, gesture, initialValueRef>>

\* The rate handleTouchEnd restores after a long press.
RestoredRate_kept == state.playbackRate

RestoredRate == savedSpeedRef

\* The centre band of the tap in handleTouchEnd.
InCentreBand_toTheRightEdge(x) == x * 10 > Viewport.width * 3

InCentreBand(x) == x * 10 > Viewport.width * 3 /\ x * 10 < Viewport.width * 7

handleTouchEnd ==
    LET T1 == clearTimeout(timers, "longPress", longPressTimerRef)
        S1 == [sess EXCEPT !.active = FALSE]
    IN
    /\ longPressTimerRef' = Nil
    /\ touchStartRef' = NoTouch
    /\ UNCHANGED <<lastTapRef, pinchStartDistRef, initialScaleRef, initialValueRef,
                   savedSpeedRef, showSettings, doubleTapAnimation>>
    /\ IF isLongPressingRef
       THEN /\ isLongPressingRef' = FALSE
            /\ isLongPressing' = FALSE
            /\ video' = [video EXCEPT !.playbackRate = RestoredRate]
            /\ state' = [state EXCEPT !.playbackRate = RestoredRate]
            /\ timers' = T1
            /\ sess' = S1
            /\ UNCHANGED <<gesture, progressHistory>>
       ELSE IF gesture # NoGesture
       THEN /\ IF gesture.type = SEEK
               THEN /\ handleSeek(gesture.value, state, T1)
                    /\ sess' = [S1 EXCEPT !.seeks = @ + 1, !.seekTo = gesture.value]
               ELSE /\ timers' = T1
                    /\ sess' = S1
                    /\ UNCHANGED <<state, video, progressHistory>>
            /\ gesture' = NoGesture
            /\ UNCHANGED <<isLongPressingRef, isLongPressing>>
       ELSE IF touchStartRef # NoTouch /\ now - touchStartRef.time < TAP_MAX_DURATION
       THEN /\ IF InCentreBand(touchStartRef.x)
               THEN /\ video' = togglePlay(video)
                    /\ state' = [state EXCEPT !.showControls = TRUE]
                    /\ timers' = resetControlsTimer(T1)
                    /\ sess' = [S1 EXCEPT !.toggles = @ + 1]
               ELSE /\ state' = [state EXCEPT !.showControls = ~state.showControls]
                    /\ timers' = T1
                    /\ sess' = S1
                    /\ UNCHANGED video
            /\ UNCHANGED <<gesture, isLongPressingRef, isLongPressing, progressHistory>>
       ELSE /\ timers' = T1
            /\ sess' = S1
            /\ UNCHANGED <<state, video, gesture, isLongPressingRef, isLongPressing,
                           progressHistory>>


(***************************************************************************)
(* Keyboard shortcuts, timer callbacks, media events, controls             *)
(***************************************************************************)
\* The volume keys: the new volume, the overlay and its clearing timeout.
VolumeKey(newVol) ==
    /\ video' = [video EXCEPT !.volume = newVol]
    /\ state' = [state EXCEPT !.volume = newVol]
    /\ gesture' = [type |-> VOLUME, value |-> newVol]
    /\ timers' = timers \cup {Timer("overlay", now + GESTURE_OVERLAY_DELAY, FALSE)}
    /\ UNCHANGED <<progressHistory, showSettings, doubleTapAnimation, isLongPressing>>

handleKeyDown(code) ==
    /\ budget.keys > 0
    /\ Spend("keys")
    /\ UNCHANGED <<refVars, sess>>
    /\ IF state.isLocked
       THEN UNCHANGED <<state, video, timers, progressHistory, uiVars>>
       ELSE CASE code = "Space" ->
                   /\ video' = togglePlay(video)
                   /\ UNCHANGED <<state, timers, progressHistory, uiVars>>
              [] code = "ArrowRight" ->
                   /\ handleSeek(state.currentTime + settings.seekTime, state, timers)
                   /\ UNCHANGED uiVars
              [] code = "ArrowLeft" ->
                   /\ handleSeek(state.currentTime - settings.seekTime, state, timers)
                   /\ UNCHANGED uiVars
              [] code = "ArrowUp" -> VolumeKey(Min(100, state.volume + VOLUME_STEP))
              [] code = "ArrowDown" -> VolumeKey(Max(0, state.volume - VOLUME_STEP))
              [] code = "KeyM" ->
                   /\ video' = [video EXCEPT !.volume = IF video.volume > 0 THEN 0 ELSE 100]
                   /\ state' = [state EXCEPT !.volume = IF video.volume > 0 THEN 0 ELSE 100]
                   /\ UNCHANGED <<timers, progressHistory, uiVars>>

\* The callback of the long-press timeout set by handleTouchStart.
LongPressCallback ==
    IF touchStartRef = NoTouch
    THEN /\ UNCHANGED <<isLongPressingRef, isLongPressing, video, state, sess>>
    ELSE /\ isLongPressingRef' = TRUE
         /\ isLongPressing' = TRUE
         /\ video' = [video EXCEPT !.playbackRate = LONG_PRESS_RATE]
         /\ state' = [state EXCEPT !.playbackRate = LONG_PRESS_RATE]
         /\ sess' = [sess EXCEPT !.engaged = TRUE]

\* A pending timeout whose delay has elapsed runs its callback.
TimerCallback(t) ==
    /\ timers' = timers \ {t}
    /\ UNCHANGED <<progressHistory, showSettings, lastTapRef, touchStartRef,
                   pinchStartDistRef, initialScaleRef, initialValueRef,
                   longPressTimerRef, savedSpeedRef>>
    /\ CASE t.kind = "longPress" ->
              /\ LongPressCallback
              /\ UNCHANGED <<gesture, doubleTapAnimation>>
         [] t.kind = "overlay" ->
              /\ gesture' = NoGesture
              /\ UNCHANGED <<state, video, doubleTapAnimation, isLongPressing,
                             isLongPressingRef, sess>>
         [] t.kind = "cue" ->
              /\ doubleTapAnimation' = Null
              /\ UNCHANGED <<state, video, gesture, isLongPressing,
                             isLongPressingRef, sess>>
         [] t.kind = "controls" ->
              /\ state' = IF t.hide THEN [state EXCEPT !.showControls = FALSE] ELSE state
              /\ UNCHANGED <<video, gesture, doubleTapAnimation, isLongPressing,
                             isLongPressingRef, sess>>

\* handlePlaying / handlePause: the element's playing or pause event.
handleMediaEvent ==
    /\ state' = [state EXCEPT !.playing = ~video.paused]
    /\ UNCHANGED <<video, timers, progressHistory, refVars, uiVars, sess>>

handleLoadedMetadata ==
    LET initialTime == progressHistory[currentVideo] IN
    /\ video' = [video EXCEPT !.duration = MediaDuration,
                   !.currentTime = IF Abs(video.currentTime - initialTime) > 1
                                   THEN Max(0, Min(MediaDuration, initialTime))
                                   ELSE Min(MediaDuration, video.currentTime)]
    /\ state' = [state EXCEPT !.duration = MediaDuration]
    /\ UNCHANGED <<timers, progressHistory, refVars, uiVars, sess>>

\* The progress throttle of handleTimeUpdate.
ShouldPersist(time) == Abs(time - state.currentTime) > 1

handleTimeUpdate ==
    /\ state' = [state EXCEPT !.currentTime = video.currentTime]
    /\ progressHistory' = IF ShouldPersist(video.currentTime)
                          THEN handleUpdateProgress(video.currentTime)
                          ELSE progressHistory
    /\ UNCHANGED <<video, timers, refVars, uiVars, sess>>

\* The sleep-timer effect has an interval running: its early return is not
\* taken in the latest render (a remaining time of 0 is falsy).
SleepIntervalActive_whilePaused == state.sleepTimer # Nil /\ state.sleepTimer # 0

SleepIntervalActive ==
    /\ state.sleepTimer # Nil /\ state.sleepTimer # 0
    /\ state.playing

\* The interval callback of the sleep-timer effect.
sleepTick ==
    IF state.sleepTimer # Nil /\ state.sleepTimer > 0
    THEN /\ state' = [state EXCEPT !.sleepTimer = @ - 1]
         /\ sleep' = [sleep EXCEPT !.ticks = @ + 1]
         /\ UNCHANGED video
    ELSE /\ video' = [video EXCEPT !.paused = TRUE]
         /\ state' = [state EXCEPT !.sleepTimer = Nil, !.playing = FALSE]
         /\ sleep' = [sleep EXCEPT !.ticks = @ + 1, !.pauses = @ + 1]

\* onSetSleepTimer, with m a number of minutes or Nil ("Turn Off").
onSetSleepTimer(m) ==
    /\ state' = [state EXCEPT !.sleepTimer = m]
    /\ sleep' = [n |-> IF m = Nil THEN 0 ELSE m, ticks |-> 0, pauses |-> 0,
                 cont |-> m # Nil /\ state.playing]

onToggleLock ==
    /\ state' = [state EXCEPT !.isLocked = ~state.isLocked,
                              !.showControls = state.isLocked]
    /\ UNCHANGED <<video, timers, progressHistory, refVars, uiVars, sess>>

onToggleSettings ==
    /\ showSettings' = ~showSettings
    /\ state' = [state EXCEPT !.showControls = TRUE]
    /\ timers' = resetControlsTimer(timers)
    /\ UNCHANGED <<video, progressHistory, refVars, gesture, doubleTapAnimation,
                   isLongPressing, sess>>

changeSpeed(speed) ==
    /\ video' = [video EXCEPT !.playbackRate = speed]
    /\ state' = [state EXCEPT !.playbackRate = speed]
    /\ UNCHANGED <<timers, progressHistory, refVars, uiVars, sess>>


(***************************************************************************)
(* Initial states                                                          *)
(***************************************************************************)
\* Ids of catalog items.
Ids == 1 .. 3

\* useState / useRef initial values and the "Initialize video" effect of
\* VideoPlayer; play() may be refused by the autoplay policy.
PlayerFresh(initialTime, initialPlaybackRate, inputs, refused) ==
    [state |-> [playing |-> FALSE, currentTime |-> initialTime, duration |-> 0,
                volume |-> 100, brightness |-> 100,
                playbackRate |-> initialPlaybackRate, showControls |-> TRUE,
                isLocked |-> FALSE, scale |-> 100, sleepTimer |-> Nil],
     video |-> [currentTime |-> initialTime, duration |-> 0, volume |-> 100,
                playbackRate |-> initialPlaybackRate, paused |-> refused],
     sess |-> NoSession(Nil),
     budget |-> inputs,
     sleep |-> [n |-> 0, ticks |-> 0, pauses |-> 0, cont |-> FALSE]]

\* The player mounted for the item cv, before any event.
PlayerInit(cv, initialTime, initialPlaybackRate, inputs) ==
    \E refused \in BOOLEAN :
        LET P == PlayerFresh(initialTime, initialPlaybackRate, inputs, refused) IN
        /\ state = P.state
        /\ video = P.video
        /\ sess = P.sess
        /\ budget = P.budget
        /\ sleep = P.sleep
        /\ showSettings = FALSE
        /\ gesture = NoGesture
        /\ doubleTapAnimation = Null
        /\ isLongPressing = FALSE
        /\ lastTapRef = LongAgo
        /\ touchStartRef = NoTouch
        /\ pinchStartDistRef = 0
        /\ initialScaleRef = 100
        /\ initialValueRef = 0
        /\ longPressTimerRef = Nil
        /\ savedSpeedRef = 100
        /\ isLongPressingRef = FALSE
        /\ timers = {}
        /\ ptr = NoPointer
        /\ prevDown = Nil

\* App mounts VideoPlayer when currentVideo becomes non-null.
PlayerMount(initialTime, initialPlaybackRate) ==
    \E refused \in BOOLEAN :
        LET P == PlayerFresh(initialTime, initialPlaybackRate, budget, refused) IN
        /\ state' = P.state
        /\ video' = P.video
        /\ sess' = P.sess
        /\ sleep' = P.sleep
        /\ showSettings' = FALSE
        /\ gesture' = NoGesture
        /\ doubleTapAnimation' = Null
        /\ isLongPressing' = FALSE
        /\ lastTapRef' = LongAgo
        /\ touchStartRef' = NoTouch
        /\ pinchStartDistRef' = 0
        /\ initialScaleRef' = 100
        /\ initialValueRef' = 0
        /\ longPressTimerRef' = Nil
        /\ savedSpeedRef' = 100
        /\ isLongPressingRef' = FALSE
        /\ timers' = {}
        /\ ptr' = NoPointer
        /\ prevDown' = Nil
        /\ UNCHANGED budget

\* A load that has not run, as lastLoad and lastDone record it.
NoLoad == [runs |-> 0, gate |-> FALSE, served |-> FALSE, fetching |-> FALSE,
           afterRefresh |-> "no"]
NoneDone == [stale |-> FALSE, gate |-> FALSE, urls |-> << >>, att |-> << >>,
             allFailed |-> FALSE, noCache |-> FALSE, notified |-> FALSE,
             fetched |-> FALSE, items |-> << >>]

\* No ended event to observe.
NoEnded == [k |-> 0, auto |-> FALSE, pos |-> 0, catalog |-> << >>]

\* No toggle of a favourite to observe.
NoToggle == [id |-> Nil, before |-> {}, n |-> 0]

\* A PIN is the sequence of its characters; no PIN (null) is the empty one,
\* which the code takes for no PIN as well (!settings.restrictedPin).
NoPin == << >>

\* The PIN dialog closed (useState of VideoList), no event on it so far.
ClosedPin ==
    [showPinModal |-> FALSE, pinInput |-> << >>, isSettingNewPin |-> FALSE,
     ev |-> "none", k |-> 0]

\* The defaults of the settings (nothing stored).
DefaultSettings ==
    [seekTime |-> 10, autoPlayNext |-> TRUE, enableOnlineDB |-> TRUE,
     googleSheetUrls |-> << >>, savedStreams |-> << >>,
     enableRestrictedMode |-> FALSE, restrictedPin |-> NoPin]

\* A loadSheets call suspended in its first fetchSheetData.
FirstFetch(S, stale) ==
    [urls |-> S.googleSheetUrls, i |-> 1, allVideos |-> << >>, hasError |-> FALSE,
     stale |-> stale, att |-> [k \in 1 .. Len(S.googleSheetUrls) |-> IF k <= 1 THEN 1 ELSE 0],
     allFailed |-> TRUE]

\* An item of localStorage: no item under the key, a text JSON.parse
\* rejects, or a text that parses to value.  d fills the value of the first
\* two with a value of the key's type.
Missing(d) == [kind |-> "missing", value |-> d]
Malformed(d) == [kind |-> "malformed", value |-> d]
Json(v) == [kind |-> "json", value |-> v]

\* The defaults the state initialisers of App give to the keys they read;
\* getStoredItem('affi_sheet_cache', null) of the load is among them.
StateDefaults ==
    [favorites |-> << >>, history |-> << >>, progress |-> [i \in Ids |-> 0],
     prefs |-> 0, settings |-> DefaultSettings, cache |-> NoCache]

\* Nothing stored, and no mount observed.
NothingStored == [key \in DOMAIN StateDefaults |-> Missing(StateDefaults[key])]
NotBooted ==
    [variant |-> "none", crashed |-> FALSE, read |-> NothingStored,
     state |-> StateDefaults]

\* useState initial values of App with the stored watch history and the
\* stored settings S, no cache record, showing item cv (null: the list
\* view), and the load effect of the mount: its early return, or its first
\* fetch in flight.
AppState(cv, progress, storedHistory, S) ==
    /\ progressHistory = [i \in Ids |-> IF i = cv THEN progress ELSE 0]
    /\ currentVideo = cv
    /\ history = storedHistory
    /\ lastSel = storedHistory
    /\ settings = S
    /\ sheetVideos = << >>
    /\ sheetCache = NoCache
    /\ IF S.enableOnlineDB /\ Len(S.googleSheetUrls) # 0
       THEN /\ loadingSheets = TRUE
            /\ loads = <<FirstFetch(S, FALSE)>>
            /\ lastLoad = [NoLoad EXCEPT !.runs = 1, !.gate = TRUE, !.fetching = TRUE]
       ELSE /\ loadingSheets = FALSE
            /\ loads = << >>
            /\ lastLoad = NoLoad
    /\ toasts = 0
    /\ lastDone = NoneDone
    /\ refreshed = "no"
    /\ favorites = << >>
    /\ favoritesRendered = << >>
    /\ favObs = NoToggle
    /\ pinModal = ClosedPin
    /\ localVideos = << >>
    /\ curPos = 0
    /\ endObs = NoEnded

\* The same, the reads of the mount not being looked at.
AppStart(cv, progress, storedHistory, S) ==
    /\ AppState(cv, progress, storedHistory, S)
    /\ storage = NothingStored
    /\ boot = NotBooted

\* The same with nothing stored but the watch history.
AppInit(cv, progress, storedHistory) ==
    AppStart(cv, progress, storedHistory, DefaultSettings)

Inputs(s, k, c) == [sessions |-> s, keys |-> k, clicks |-> c]

(***************************************************************************)
(* App: watch history                                                      *)
(***************************************************************************)
Without(list, id) == SelectSeq(list, LAMBDA x : x # id)

Contains(list, id) == \E k \in 1 .. Len(list) : list[k] = id

Members(list) == {list[k] : k \in 1 .. Len(list)}

Keep(list, n) == SubSeq(list, 1, Min(n, Len(list)))

\* The setHistory updater of handleSelectVideo.
AddToHistory_unfiltered(prev, id) == Keep(<<id>> \o prev, HISTORY_CAP)

AddToHistory(prev, id) == Keep(<<id>> \o Without(prev, id), HISTORY_CAP)

\* progressHistory[id] || 0, the initialTime prop of the player.
InitialTime(id) == IF id \in DOMAIN progressHistory THEN progressHistory[id] ELSE 0

handleSelectVideo(id) ==
    /\ currentVideo' = id
    /\ history' = AddToHistory(history, id)
    /\ lastSel' = <<id>> \o Without(lastSel, id)

handleClosePlayer == currentVideo' = Nil

(***************************************************************************)
(* App: the merged catalog, next item, end of media                        *)
(***************************************************************************)
\* The id fetchSheetData gives the row of a sheet (sheet-<sheetId>-<index>):
\* the same for every fetch of the same sheet.
RowId(row) == IF row = "sheetA" THEN 1 ELSE 2

\* The merged catalog, as the list of the ids of its items.
allVideos ==
    localVideos \o settings.savedStreams \o
    [k \in 1 .. Len(sheetVideos) |-> RowId(sheetVideos[k])]

\* findIndex(v => v.id === id), counted from 1; 0 for -1.
IndexOfId(list, id) ==
    IF Contains(list, id)
    THEN CHOOSE k \in 1 .. Len(list) :
            list[k] = id /\ \A j \in 1 .. k - 1 : list[j] # id
    ELSE 0

\* The onNext prop: allVideos.indexOf(currentVideo) < allVideos.length - 1.
onNextDefined == curPos < Len(allVideos)

handleNextVideo ==
    LET currentIndex == IndexOfId(allVideos, currentVideo) IN
    IF currentVideo # Nil /\ Len(allVideos) # 0
       /\ currentIndex # 0 /\ currentIndex < Len(allVideos)
    THEN /\ handleSelectVideo(allVideos[currentIndex + 1])
         /\ curPos' = currentIndex + 1
    ELSE UNCHANGED <<currentVideo, history, lastSel, curPos>>

\* handleEnded, with the "Initialize video" effect that runs when the id of
\* the video prop has changed: the element loads the new item and play()
\* is called (refused: the autoplay policy rejects it).  The element has
\* paused itself on reaching the end.
\* onNextIsDefined and onNext are the onNext prop App has passed, catalog the
\* list it is computed over and pos the place of the current item in it.
handleEndedWith(refused, onNextIsDefined, onNext, catalog, pos) ==
    /\ IF settings.autoPlayNext /\ onNextIsDefined
       THEN onNext
       ELSE UNCHANGED <<currentVideo, history, lastSel, curPos>>
    /\ IF currentVideo' # currentVideo
       THEN /\ video' = [currentTime |-> InitialTime(currentVideo'), duration |-> 0,
                         volume |-> state.volume, playbackRate |-> 100,
                         paused |-> refused]
            /\ state' = [state EXCEPT !.playing = FALSE, !.showControls = TRUE,
                                      !.scale = 100]
            /\ timers' = {t \in timers : t.kind # "controls"}
       ELSE /\ video' = [video EXCEPT !.paused = TRUE]
            /\ state' = [state EXCEPT !.playing = FALSE, !.showControls = TRUE]
            /\ UNCHANGED timers
    /\ endObs' = [k |-> 1 - endObs.k, auto |-> settings.autoPlayNext,
                  pos |-> pos, catalog |-> catalog]

handleEnded(refused) ==
    handleEndedWith(refused, onNextDefined, handleNextVideo, allVideos,
                    IF curPos # 0 THEN curPos ELSE IndexOfId(allVideos, currentVideo))

(***************************************************************************)
(* App of the restricted-mode variant: the filtered catalog                *)
(***************************************************************************)
\* The ids of the items that carry the restricted flag.
FlaggedIds == {2}

isRestricted(id) == id \in FlaggedIds

\* The list all without the items hidden: none while the mode is enabled.
Visible_unfiltered(all) == all

Visible(all) ==
    IF settings.enableRestrictedMode
    THEN all
    ELSE SelectSeq(all, LAMBDA v : ~isRestricted(v))

filteredVideos == Visible(allVideos)

\* filteredVideos.indexOf(currentVideo), counted from 1; 0 for -1.
filteredPos ==
    IF curPos = 0 \/ Visible(<<allVideos[curPos]>>) = << >>
    THEN 0
    ELSE Len(Visible(SubSeq(allVideos, 1, curPos)))

\* The place in the merged catalog of the k-th item of filteredVideos.
PlaceOfFiltered(k) ==
    CHOOSE p \in 1 .. Len(allVideos) :
        /\ Visible(<<allVideos[p]>>) # << >>
        /\ Len(Visible(SubSeq(allVideos, 1, p))) = k

onNextFiltered == filteredPos < Len(filteredVideos)
onPrevFiltered == filteredPos > 1

\* handleNextVideo and handlePrevVideo of this variant, which keeps no watch
\* history.
handleNextVideoFiltered ==
    LET currentIndex == IndexOfId(filteredVideos, currentVideo) IN
    IF currentVideo # Nil /\ Len(filteredVideos) # 0
       /\ currentIndex # 0 /\ currentIndex < Len(filteredVideos)
    THEN /\ currentVideo' = filteredVideos[currentIndex + 1]
         /\ curPos' = PlaceOfFiltered(currentIndex + 1)
         /\ UNCHANGED <<history, lastSel>>
    ELSE UNCHANGED <<currentVideo, history, lastSel, curPos>>

handlePrevVideoFiltered ==
    LET currentIndex == IndexOfId(filteredVideos, currentVideo) IN
    IF currentVideo # Nil /\ Len(filteredVideos) # 0 /\ currentIndex > 1
    THEN /\ currentVideo' = filteredVideos[currentIndex - 1]
         /\ curPos' = PlaceOfFiltered(currentIndex - 1)
         /\ UNCHANGED <<history, lastSel>>
    ELSE UNCHANGED <<currentVideo, history, lastSel, curPos>>

handleEndedFiltered(refused) ==
    handleEndedWith(refused, onNextFiltered, handleNextVideoFiltered, filteredVideos,
                    IF filteredPos # 0 THEN filteredPos
                    ELSE IndexOfId(filteredVideos, currentVideo))

\* The "Initialize video" effect after App has put another item in the
\* mounted player.
videoChanged(refused) ==
    IF currentVideo' # currentVideo
    THEN /\ video' = [currentTime |-> InitialTime(currentVideo'), duration |-> 0,
                      volume |-> state.volume, playbackRate |-> 100,
                      paused |-> refused]
         /\ state' = [state EXCEPT !.showControls = TRUE, !.scale = 100]
         /\ timers' = resetControlsTimer(timers)
    ELSE UNCHANGED <<video, state, timers>>

(***************************************************************************)
(* App: favourites                                                         *)
(***************************************************************************)
\* handleToggleFavorite(id): isAdding is computed from the favorites of the
\* render that bound the handler, the updater is applied to the state.
\* rendered and prev are those two lists.
ToggledFavorites(rendered, prev, id) ==
    LET isAdding == ~Contains(rendered, id) IN
    IF isAdding THEN Append(prev, id) ELSE Without(prev, id)

handleToggleFavorite(id) ==
    /\ favorites' = ToggledFavorites(favoritesRendered, favorites, id)
    /\ favObs' = IF favObs.id = id /\ favObs.n = 1
                 THEN [favObs EXCEPT !.n = 2]
                 ELSE [id |-> id, before |-> Members(favorites), n |-> 1]

(***************************************************************************)
(* App: the remote catalog and its cache                                   *)
(***************************************************************************)
\* What fetchSheetData(url) can resolve to: the rows parsed from the sheet
\* (one item, named after its sheet), or [] (no sheet id in the URL, a
\* failed request, an empty sheet).
FetchResults(url) == {<<url>>, << >>}

\* The gate of loadSheets, for the settings S of the render that runs it.
LoadGate(S) == S.enableOnlineDB /\ Len(S.googleSheetUrls) # 0

shouldFetch_atOneHour(S) ==
    \/ sheetCache = NoCache
    \/ now - sheetCache.timestamp >= CACHE_DURATION
    \/ Len(sheetCache.data) = 0 /\ Len(S.googleSheetUrls) > 0

shouldFetch(S) ==
    \/ sheetCache = NoCache
    \/ now - sheetCache.timestamp > CACHE_DURATION
    \/ Len(sheetCache.data) = 0 /\ Len(S.googleSheetUrls) > 0

\* The cache record is older than one hour.
StaleCache == sheetCache # NoCache /\ now - sheetCache.timestamp > CACHE_DURATION

\* The cache record is at most one hour old and holds items.
FreshCache ==
    /\ sheetCache # NoCache
    /\ now - sheetCache.timestamp <= CACHE_DURATION
    /\ Len(sheetCache.data) > 0

Attempts(urls, upto) == [k \in 1 .. Len(urls) |-> IF k <= upto THEN 1 ELSE 0]

\* loadSheets up to its first await (or its return), run by the effect for
\* the settings S.  A call that goes on to fetch is suspended in
\* fetchSheetData(urls[i]).
loadSheets(S, inFlight) ==
    LET started == [runs |-> 1 - lastLoad.runs, gate |-> LoadGate(S),
                    served |-> FALSE, fetching |-> FALSE,
                    afterRefresh |-> refreshed]
        done == [stale |-> StaleCache, gate |-> LoadGate(S),
                 urls |-> S.googleSheetUrls,
                 att |-> Attempts(S.googleSheetUrls, 0),
                 allFailed |-> FALSE, noCache |-> FALSE, notified |-> FALSE,
                 fetched |-> FALSE,
                 items |-> IF LoadGate(S) THEN sheetCache.data ELSE << >>]
    IN
    /\ refreshed' = "no"
    /\ UNCHANGED <<sheetCache, toasts>>
    /\ IF ~LoadGate(S)
       THEN /\ sheetVideos' = << >>
            /\ loads' = inFlight
            /\ lastLoad' = started
            /\ lastDone' = done
            /\ UNCHANGED loadingSheets
       ELSE IF ~shouldFetch(S)
       THEN /\ sheetVideos' = sheetCache.data
            /\ loadingSheets' = FALSE
            /\ loads' = inFlight
            /\ lastLoad' = [started EXCEPT !.served = TRUE]
            /\ lastDone' = done
       ELSE /\ loadingSheets' = TRUE
            /\ loads' = Append(inFlight, FirstFetch(S, StaleCache))
            /\ lastLoad' = [started EXCEPT !.fetching = TRUE]
            /\ UNCHANGED <<sheetVideos, lastDone>>

\* The completed loop writes the cache record: no toast is due and there are
\* items.
CacheWritten_always(hasError, merged) == TRUE

CacheWritten(hasError, merged) ==
    ~(hasError /\ Len(merged) = 0) /\ Len(merged) > 0

RemoveAt(list, k) == [j \in 1 .. Len(list) - 1 |-> IF j < k THEN list[j] ELSE list[j + 1]]

\* loadSheets resumed: fetchSheetData of the k-th call in flight resolves to
\* videos (failed: it resolves to [] from its catch block, after a network
\* error, a non-success status or an unreadable response); the loop goes to
\* the next URL or the call completes.
loadSheetsResume(k, videos, failed) ==
    LET L == loads[k]
        merged == L.allVideos \o videos
    IN
    IF L.i < Len(L.urls)
    THEN /\ loads' = [loads EXCEPT ![k] =
                        [L EXCEPT !.i = @ + 1, !.allVideos = merged,
                                  !.att = [@ EXCEPT ![L.i + 1] = @ + 1],
                                  !.allFailed = @ /\ failed]]
         /\ UNCHANGED <<sheetVideos, loadingSheets, sheetCache, toasts,
                        lastLoad, lastDone, refreshed>>
    ELSE /\ loads' = RemoveAt(loads, k)
         /\ toasts' = IF L.hasError /\ Len(merged) = 0 THEN toasts + 1 ELSE toasts
         /\ sheetCache' = IF CacheWritten(L.hasError, merged)
                          THEN [timestamp |-> now, data |-> merged]
                          ELSE sheetCache
         /\ refreshed' = IF Len(merged) > 0 /\ refreshed = "yes"
                         THEN "rewritten" ELSE refreshed
         /\ sheetVideos' = merged
         /\ loadingSheets' = FALSE
         /\ lastDone' = [stale |-> L.stale, gate |-> TRUE, urls |-> L.urls,
                         att |-> L.att, allFailed |-> L.allFailed /\ failed,
                         noCache |-> sheetCache = NoCache,
                         notified |-> toasts' > toasts,
                         fetched |-> TRUE, items |-> merged]
         /\ UNCHANGED lastLoad

\* localStorage.removeItem('affi_sheet_cache') of handleManualRefresh.
RemovedCache_kept == sheetCache

RemovedCache == NoCache

\* handleManualRefresh: the settings object is copied, its source list and
\* its enable flag are the same values, so the load effect does not run.
handleManualRefresh ==
    /\ sheetCache' = RemovedCache
    /\ settings' = settings
    /\ refreshed' = "yes"
    /\ UNCHANGED <<sheetVideos, loadingSheets, loads, toasts, lastLoad, lastDone>>

\* onSettingsChange (setSettings) with the settings S, whose source list or
\* enable flag differs from the rendered one: the load effect runs.
onSettingsChange(S) ==
    /\ settings' = S
    /\ loadSheets(S, loads)


(***************************************************************************)
(* The player under pointer, keyboard and timer events                     *)
(***************************************************************************)
\* The App above the mounted player does not change.
appUnchanged ==
    UNCHANGED <<currentVideo, history, lastSel, catalogVars, listVars, mergeVars>>

PointerDown(p, n) ==
    /\ appUnchanged
    /\ ptr = NoPointer
    /\ budget.sessions > 0
    /\ Spend("sessions")
    /\ ptr' = [x |-> p[1], y |-> p[2], n |-> n, dx |-> 0, dy |-> 0, k |-> 0]
    /\ prevDown' = now
    /\ handleTouchStart(p[1], p[2], n)
    /\ UNCHANGED obsVars

PointerMove(o, dist) ==
    /\ appUnchanged
    /\ ptr # NoPointer
    /\ ptr.x + o[1] \in 0 .. Viewport.width
    /\ ptr.y + o[2] \in 0 .. Viewport.height
    /\ handleTouchMove(ptr.x + o[1], ptr.y + o[2], ptr.n, dist)
    /\ UNCHANGED <<ptr, prevDown, budget, obsVars>>

\* The same for a one-point session, the offset of the move being observed.
ObservedMove(o) ==
    /\ appUnchanged
    /\ ptr # NoPointer
    /\ ptr.n = 1
    /\ ptr.x + o[1] \in 0 .. Viewport.width
    /\ ptr.y + o[2] \in 0 .. Viewport.height
    /\ handleTouchMove(ptr.x + o[1], ptr.y + o[2], ptr.n, PinchStart.dist)
    /\ ptr' = [ptr EXCEPT !.dx = o[1], !.dy = o[2], !.k = 1 - @]
    /\ UNCHANGED <<prevDown, budget, obsVars>>

\* A move of the two fingers of a pinch to the distance dist, observed.
ObservedPinch(dist) ==
    /\ appUnchanged
    /\ ptr # NoPointer
    /\ ptr.n = 2
    /\ handleTouchMove(ptr.x, ptr.y, ptr.n, dist)
    /\ ptr' = [ptr EXCEPT !.k = 1 - @]
    /\ UNCHANGED <<prevDown, budget, obsVars>>

PointerUp ==
    /\ appUnchanged
    /\ ptr # NoPointer
    /\ ptr' = NoPointer
    /\ handleTouchEnd
    /\ UNCHANGED <<prevDown, budget, obsVars>>

KeyDown(code) ==
    /\ appUnchanged
    /\ budget.keys > 0
    /\ Spend("keys")
    /\ code = "ArrowRight" => state.currentTime <= state.duration
    /\ code = "ArrowLeft" => state.currentTime >= 0
    /\ handleKeyDown(code)
    /\ UNCHANGED <<ptr, prevDown, obsVars>>

TimerFire(t) ==
    /\ appUnchanged
    /\ t.due <= now
    /\ TimerCallback(t)
    /\ UNCHANGED <<ptr, prevDown, budget, obsVars>>

\* The media element's events have been delivered to the component.
Mirrored ==
    /\ state.playing = ~video.paused
    /\ state.currentTime = video.currentTime

\* Time passes by one clock step.  A timeout that is due runs first, and a
\* media event is delivered within the step in which it was raised.
Tick ==
    /\ appUnchanged
    /\ \A t \in timers : t.kind # "controls" => t.due > now
    /\ Mirrored
    /\ timers' = {[t EXCEPT !.due = IF t.kind = "controls" THEN now ELSE @ - Clock.step] :
                    t \in timers}
    /\ lastTapRef' = Aged(lastTapRef, DOUBLE_TAP_DELAY)
    /\ touchStartRef' = IF touchStartRef = NoTouch THEN NoTouch
                        ELSE [touchStartRef EXCEPT !.time = Aged(@, TAP_MAX_DURATION)]
    /\ longPressTimerRef' = Aged(longPressTimerRef, Clock.step)
    /\ prevDown' = Aged(prevDown, DOUBLE_TAP_DELAY)
    /\ sess' = IF sess.active
               THEN [sess EXCEPT !.t0 = Aged(@, LONG_PRESS_DELAY + Clock.step),
                                 !.tap = Aged(@, DOUBLE_TAP_DELAY)]
               ELSE NoSession(Aged(sess.tap, DOUBLE_TAP_DELAY))
    /\ UNCHANGED <<state, video, progressHistory, pinchStartDistRef,
                   initialScaleRef, initialValueRef, savedSpeedRef,
                   isLongPressingRef, uiVars, ptr, budget, obsVars>>

MediaEvent ==
    /\ appUnchanged
    /\ currentVideo # Nil
    /\ state.playing # ~video.paused
    /\ handleMediaEvent
    /\ sleep' = [sleep EXCEPT !.cont = @ /\ ~video.paused]
    /\ UNCHANGED <<ptr, prevDown, budget>>

\* The metadata arrive before the first pointer-down, or not at all.
LoadedMetadata ==
    /\ appUnchanged
    /\ currentVideo # Nil
    /\ video.duration = 0
    /\ prevDown = Nil
    /\ handleLoadedMetadata
    /\ UNCHANGED <<ptr, prevDown, budget, obsVars>>

TimeUpdate ==
    /\ appUnchanged
    /\ currentVideo # Nil
    /\ state.currentTime # video.currentTime
    /\ handleTimeUpdate
    /\ UNCHANGED <<ptr, prevDown, budget, obsVars>>

ToggleLock ==
    /\ appUnchanged
    /\ ptr = NoPointer
    /\ budget.clicks > 0
    /\ Spend("clicks")
    /\ onToggleLock
    /\ UNCHANGED <<ptr, prevDown, obsVars>>

ToggleSettings ==
    /\ appUnchanged
    /\ ptr = NoPointer
    /\ budget.clicks > 0
    /\ Spend("clicks")
    /\ ~state.isLocked
    /\ onToggleSettings
    /\ UNCHANGED <<ptr, prevDown, obsVars>>

ChangeSpeed(speed) ==
    /\ appUnchanged
    /\ ptr = NoPointer
    /\ budget.clicks > 0
    /\ Spend("clicks")
    /\ ~state.isLocked
    /\ speed # state.playbackRate
    /\ changeSpeed(speed)
    /\ UNCHANGED <<ptr, prevDown, obsVars>>

\* One minute passes with the sleep interval running.
SleepTick ==
    /\ appUnchanged
    /\ SleepIntervalActive
    /\ sleepTick
    /\ UNCHANGED <<timers, progressHistory, refVars, uiVars, sess, ptr, prevDown, budget>>

SetSleepTimer(m) ==
    /\ appUnchanged
    /\ ~state.isLocked
    /\ onSetSleepTimer(m)
    /\ UNCHANGED <<video, timers, progressHistory, refVars, uiVars, sess, ptr,
                   prevDown, budget>>

\* The play/pause button of the controls.
TogglePlay ==
    /\ appUnchanged
    /\ ~state.isLocked
    /\ video' = togglePlay(video)
    /\ UNCHANGED <<state, timers, progressHistory, refVars, uiVars, sess, ptr,
                   prevDown, budget, obsVars>>

\* Playback advances by one second of media time; the element raises
\* timeupdate several times per second, so the previous one was delivered.
PlaybackAdvance ==
    /\ appUnchanged
    /\ currentVideo # Nil
    /\ ~video.paused
    /\ video.duration # 0
    /\ video.currentTime < video.duration
    /\ state.currentTime = video.currentTime
    /\ video' = [video EXCEPT !.currentTime = @ + 1]
    /\ UNCHANGED <<state, timers, progressHistory, refVars, uiVars, sess, ptr,
                   prevDown, budget, obsVars>>

\* Drags, the volume keys and the settings panel.
NextGesture ==
    \/ \E p \in DownPoints : PointerDown(p, 1)
    \/ \E o \in DragOffsets : PointerMove(o, PinchStart.dist)
    \/ PointerUp
    \/ \E code \in VolumeKeys : KeyDown(code)
    \/ \E t \in timers : TimerFire(t)
    \/ Tick
    \/ LoadedMetadata
    \/ ToggleSettings

InitGesture == PlayerInit(1, 5, 100, Inputs(MaxDrags, MaxKeys, MaxClicks)) /\ AppInit(1, 5, << >>)

SpecGesture == InitGesture /\ [][NextGesture]_vars

\* One pointer session with moves on both sides of the thresholds, after a
\* click on the lock or on the settings panel or none.
ClassifyPoints == {<<20, 30>>, <<45, 30>>, <<70, 30>>}
ClassifyOffsets ==
    {<<5, 0>>, <<20, 0>>, <<21, 0>>, <<-21, 20>>, <<20, 20>>, <<21, 21>>,
     <<10, -21>>, <<0, 20>>}

NextClassify ==
    \/ \E p \in ClassifyPoints : PointerDown(p, 1)
    \/ \E o \in ClassifyOffsets : ObservedMove(o)
    \/ PointerUp
    \/ \E t \in timers : TimerFire(t)
    \/ Tick
    \/ LoadedMetadata
    \/ ToggleLock
    \/ ToggleSettings

InitClassify ==
    /\ PlayerInit(1, 5, 100, Inputs(1, 0, 1))
    /\ AppInit(1, 5, << >>)

SpecClassify == InitClassify /\ [][NextClassify]_vars

\* The pointer and the keyboard with the lock control: every shortcut of the
\* keyboard handler, one-point drags and pinches, before, while and after
\* the player is locked.
LockedPoints == {<<20, 30>>, <<50, 30>>}
LockedOffsets == {<<30, 0>>, <<0, -30>>}
LockedKeys == {"Space", "ArrowRight", "ArrowLeft", "ArrowUp", "ArrowDown", "KeyM"}
MaxLockedSessions == 1
MaxLockedKeys == 1
MaxLockedClicks == 2

NextLocked ==
    \/ \E p \in LockedPoints, n \in {1, 2} : PointerDown(p, n)
    \/ \E o \in LockedOffsets : ObservedMove(o)
    \/ \E d \in PinchDists : ObservedPinch(d)
    \/ PointerUp
    \/ \E code \in LockedKeys : KeyDown(code)
    \/ \E t \in timers : TimerFire(t)
    \/ Tick
    \/ MediaEvent
    \/ LoadedMetadata
    \/ ToggleLock

InitLocked ==
    /\ PlayerInit(1, 5, 100, Inputs(MaxLockedSessions, MaxLockedKeys, MaxLockedClicks))
    /\ AppInit(1, 5, << >>)

SpecLocked == InitLocked /\ [][NextLocked]_vars

\* Double taps on the two side zones following each other.
CuePoints == {<<20, 30>>, <<70, 30>>}
MaxCueSessions == 4

NextCue ==
    \/ \E p \in CuePoints : PointerDown(p, 1)
    \/ PointerUp
    \/ \E t \in timers : TimerFire(t)
    \/ Tick
    \/ LoadedMetadata

InitCue ==
    /\ PlayerInit(1, 15, 100, Inputs(MaxCueSessions, 0, 0))
    /\ AppInit(1, 15, << >>)

SpecCue == InitCue /\ [][NextCue]_vars

\* Taps, double taps, holds and pinches, with the lock, the settings panel,
\* the speed control and the play state.
NextTap ==
    \/ \E p \in DownPoints, n \in {1, 2} : PointerDown(p, n)
    \/ \E d \in PinchDists : PointerMove(<<0, 0>>, d)
    \/ PointerUp
    \/ \E t \in timers : TimerFire(t)
    \/ Tick
    \/ MediaEvent
    \/ LoadedMetadata
    \/ ToggleLock
    \/ ToggleSettings
    \/ \E speed \in Speeds : ChangeSpeed(speed)

InitTap ==
    \E t \in ResumeTimes :
        /\ AppInit(1, t, << >>)
        /\ PlayerInit(1, t, 100, Inputs(MaxSessions, 0, MaxClicks))

SpecTap == InitTap /\ [][NextTap]_vars

\* The sleep timer under the sleep menu, play/pause and the minute interval.
NextSleep ==
    \/ \E m \in SleepMinutes \cup {Nil} : SetSleepTimer(m)
    \/ SleepTick
    \/ TogglePlay
    \/ MediaEvent

InitSleep == PlayerInit(1, 5, 100, Inputs(0, 0, 0)) /\ AppInit(1, 5, << >>)

SpecSleep == InitSleep /\ [][NextSleep]_vars

\* Playback with its time updates, the seek keys and play/pause.
NextProgress ==
    \/ PlaybackAdvance
    \/ TimeUpdate
    \/ \E code \in SeekKeys : KeyDown(code)
    \/ \E t \in timers : TimerFire(t)
    \/ TogglePlay
    \/ MediaEvent
    \/ LoadedMetadata

InitProgress == PlayerInit(1, 5, 100, Inputs(0, MaxKeys, 0)) /\ AppInit(1, 5, << >>)

SpecProgress == InitProgress /\ [][NextProgress]_vars

(***************************************************************************)
(* The list view: selections                                               *)
(***************************************************************************)
SelectVideo(id) ==
    /\ currentVideo = Nil
    /\ handleSelectVideo(id)
    /\ PlayerMount(InitialTime(id), 100)
    /\ curPos' = IndexOfId(allVideos, id)
    /\ UNCHANGED <<progressHistory, catalogVars, listVars, localVideos, endObs>>

ClosePlayer ==
    /\ currentVideo # Nil
    /\ handleClosePlayer
    /\ curPos' = 0
    /\ UNCHANGED <<playerVars, progressHistory, history, lastSel, catalogVars, listVars,
                   localVideos, endObs>>

NextHistory ==
    \/ \E id \in SelectIds : SelectVideo(id)
    \/ ClosePlayer

InitHistory ==
    \E stored \in {<< >>, FullHistory} :
        /\ PlayerInit(Nil, 0, 100, Inputs(0, 0, 0))
        /\ AppInit(Nil, 0, stored)

SpecHistory == InitHistory /\ [][NextHistory]_vars

(***************************************************************************)
(* The list view: favourites                                               *)
(***************************************************************************)
listFrame ==
    UNCHANGED <<playerVars, progressHistory, currentVideo, history, lastSel, catalogVars,
                mergeVars>>

\* A click on the heart button of item id.
ToggleFavorite(id) ==
    /\ Len(favorites) < MaxFavs \/ Contains(favoritesRendered, id)
    /\ handleToggleFavorite(id)
    /\ UNCHANGED <<favoritesRendered, pinModal, storeVars>>
    /\ listFrame

\* App renders with the updates queued so far: the list view gets the new
\* favorites and a new handler.  React batches the updates of the handlers
\* that run before it renders.
RenderList ==
    /\ favoritesRendered # favorites
    /\ favoritesRendered' = favorites
    /\ UNCHANGED <<favorites, favObs, pinModal, storeVars>>
    /\ listFrame

NextFavorites ==
    \/ \E id \in FavIds : ToggleFavorite(id)
    \/ RenderList

InitFavorites == PlayerInit(Nil, 0, 100, Inputs(0, 0, 0)) /\ AppInit(Nil, 0, << >>)

SpecFavorites == InitFavorites /\ [][NextFavorites]_vars

(***************************************************************************)
(* The list view: restricted mode and its PIN                              *)
(***************************************************************************)
PIN_MIN_LENGTH == 4
PIN_MAX_LENGTH == 6

Digits == {"0", "1", "2", "3", "4", "5", "6", "7", "8", "9"}

\* /^\d*$/
IsDigits(v) == \A k \in 1 .. Len(v) : v[k] \in Digits

\* The event ev on the dialog, as the observation fields of M record it.
Seen(ev, M) == [M EXCEPT !.ev = ev, !.k = 1 - @]

\* The settings of the list view change, the sources of the catalog do not:
\* the load effect does not run.
settingsOnly ==
    UNCHANGED <<sheetVideos, loadingSheets, sheetCache, loads, toasts, lastLoad,
                lastDone, refreshed>>

\* handleRestrictedToggle: the switch of the settings panel.
handleRestrictedToggle ==
    IF settings.enableRestrictedMode
    THEN /\ settings' = [settings EXCEPT !.enableRestrictedMode = FALSE]
         /\ pinModal' = Seen("toggle", pinModal)
    ELSE /\ settings' = settings
         /\ pinModal' = Seen("toggle",
                [pinModal EXCEPT !.pinInput = << >>, !.showPinModal = TRUE,
                                 !.isSettingNewPin = (settings.restrictedPin = NoPin)])

\* onChange of the PIN input with the value v of the field.
pinInputChange(v) ==
    /\ pinModal' = Seen("change",
            IF IsDigits(v) /\ Len(v) <= PIN_MAX_LENGTH
            THEN [pinModal EXCEPT !.pinInput = v] ELSE pinModal)
    /\ settings' = settings

PinLongEnough(v) == Len(v) >= PIN_MIN_LENGTH

\* A comparison that accepts every PIN.
PinMatches_anything(v, stored) == TRUE

\* pinInput === settings.restrictedPin: a string never equals null.
PinMatches(v, stored) == stored # NoPin /\ v = stored

\* handlePinSubmit: the form of the dialog is submitted.  The alert of a
\* rejected submission changes no state.
handlePinSubmit ==
    IF pinModal.isSettingNewPin
    THEN IF PinLongEnough(pinModal.pinInput)
         THEN /\ settings' = [settings EXCEPT !.restrictedPin = pinModal.pinInput,
                                              !.enableRestrictedMode = TRUE]
              /\ pinModal' = Seen("submit", [pinModal EXCEPT !.showPinModal = FALSE])
         ELSE /\ settings' = settings
              /\ pinModal' = Seen("submit", pinModal)
    ELSE IF PinMatches(pinModal.pinInput, settings.restrictedPin)
         THEN /\ settings' = [settings EXCEPT !.enableRestrictedMode = TRUE]
              /\ pinModal' = Seen("submit", [pinModal EXCEPT !.showPinModal = FALSE])
         ELSE /\ settings' = settings
              /\ pinModal' = Seen("submit", [pinModal EXCEPT !.pinInput = << >>])

\* The cancel button of the dialog.
pinCancel ==
    /\ pinModal' = Seen("cancel", [pinModal EXCEPT !.showPinModal = FALSE,
                                                   !.pinInput = << >>])
    /\ settings' = settings

\* handleClearData, confirmed: the settings go back to their defaults.
handleClearData ==
    /\ settings' = DefaultSettings
    /\ pinModal' = Seen("clear", pinModal)

pinFrame ==
    /\ settingsOnly
    /\ UNCHANGED <<playerVars, progressHistory, currentVideo, history, lastSel,
                   favorites, favoritesRendered, favObs, storeVars, mergeVars>>

\* The list view is rendered while no item is in the player; the dialog
\* covers the list view while it is shown.
RestrictedToggle ==
    /\ currentVideo = Nil
    /\ ~pinModal.showPinModal
    /\ handleRestrictedToggle
    /\ pinFrame

PinInputChange(v) ==
    /\ currentVideo = Nil
    /\ pinModal.showPinModal
    /\ pinInputChange(v)
    /\ pinFrame

PinSubmit ==
    /\ currentVideo = Nil
    /\ pinModal.showPinModal
    /\ handlePinSubmit
    /\ pinFrame

PinCancel ==
    /\ currentVideo = Nil
    /\ pinModal.showPinModal
    /\ pinCancel
    /\ pinFrame

ClearData ==
    /\ currentVideo = Nil
    /\ ~pinModal.showPinModal
    /\ settings # DefaultSettings
    /\ handleClearData
    /\ pinFrame

\* What the user types or pastes into the PIN field.
PinInputs ==
    {<< >>, <<"1", "2", "3">>, <<"1", "2", "3", "4">>, <<"4", "3", "2", "1">>,
     <<"1", "2", "3", "4", "5", "6">>, <<"1", "2", "3", "4", "5", "6", "7">>,
     <<"1", "2", "a", "4">>}

NextPin ==
    \/ RestrictedToggle
    \/ \E v \in PinInputs : PinInputChange(v)
    \/ PinSubmit
    \/ PinCancel
    \/ ClearData

InitPin == PlayerInit(Nil, 0, 100, Inputs(0, 0, 0)) /\ AppInit(Nil, 0, << >>)

SpecPin == InitPin /\ [][NextPin]_vars

(***************************************************************************)
(* The list view: sources, cache and loads                                 *)
(***************************************************************************)
\* setSheetVideos has run in this step (a load has completed, or has
\* returned at its gate or with the cached items): the remote items of the
\* catalog are new objects.
SheetsReplaced ==
    \/ Len(loads') < Len(loads)
    \/ lastLoad'.runs # lastLoad.runs /\ ~lastLoad'.fetching

catalogFrame ==
    /\ curPos' = IF SheetsReplaced /\ curPos > Len(localVideos) + Len(settings.savedStreams)
                 THEN 0 ELSE curPos
    /\ UNCHANGED <<playerVars, progressHistory, currentVideo, history, lastSel, listVars,
                   localVideos, endObs>>

AddSheetUrl(url) ==
    /\ settings.enableOnlineDB
    /\ Len(settings.googleSheetUrls) < MaxUrls
    /\ Len(loads) < MaxLoads
    /\ onSettingsChange([settings EXCEPT !.googleSheetUrls = Append(@, url)])
    /\ catalogFrame

RemoveSheetUrl(url) ==
    /\ settings.enableOnlineDB
    /\ \E k \in 1 .. Len(settings.googleSheetUrls) : settings.googleSheetUrls[k] = url
    /\ Len(loads) < MaxLoads
    /\ onSettingsChange([settings EXCEPT !.googleSheetUrls = Without(@, url)])
    /\ catalogFrame

ToggleOnlineDB ==
    /\ Len(loads) < MaxLoads
    /\ onSettingsChange([settings EXCEPT !.enableOnlineDB = ~@])
    /\ catalogFrame

ManualRefresh ==
    /\ handleManualRefresh
    /\ catalogFrame

\* The page is loaded again: App mounts with the stored settings and cache,
\* and the calls in flight are gone with the old page.
Reload ==
    /\ settings' = settings
    /\ loadSheets(settings, << >>)
    /\ catalogFrame

FetchReturn(k, videos, failed) ==
    /\ failed => videos = << >>
    /\ loadSheetsResume(k, videos, failed)
    /\ UNCHANGED settings
    /\ catalogFrame

\* Half an hour passes; no fetch takes that long.  Ages beyond the second
\* step past CACHE_DURATION are not told apart.
CatalogTick ==
    /\ loads = << >>
    /\ sheetCache # NoCache
    /\ sheetCache' = [sheetCache EXCEPT !.timestamp =
                        Max(@ - CatalogClock.step, now - CACHE_DURATION - CatalogClock.step)]
    /\ UNCHANGED <<settings, sheetVideos, loadingSheets, loads, toasts, lastLoad,
                   lastDone, refreshed>>
    /\ catalogFrame

NextCatalog ==
    \/ \E url \in Urls : AddSheetUrl(url)
    \/ \E url \in Urls : RemoveSheetUrl(url)
    \/ ToggleOnlineDB
    \/ ManualRefresh
    \/ Reload
    \/ \E k \in 1 .. Len(loads) : \E videos \in FetchResults(loads[k].urls[loads[k].i]) :
          FetchReturn(k, videos, videos = << >>)
    \/ CatalogTick

InitCatalog == PlayerInit(Nil, 0, 100, Inputs(0, 0, 0)) /\ AppInit(Nil, 0, << >>)

\* In NextCatalog every empty answer is a failed request.
SpecCatalog == InitCatalog /\ [][NextCatalog]_vars

\* Loads side by side: changes of the source list and of the enable flag
\* while fetches are in flight, each fetch answering with rows, with an
\* empty sheet, or failing.
NextLoads ==
    \/ \E url \in Urls : AddSheetUrl(url)
    \/ \E url \in Urls : RemoveSheetUrl(url)
    \/ ToggleOnlineDB
    \/ \E k \in 1 .. Len(loads) : \E videos \in FetchResults(loads[k].urls[loads[k].i]) :
          \E failed \in BOOLEAN : FetchReturn(k, videos, failed)

SpecLoads == InitCatalog /\ [][NextLoads]_vars

(***************************************************************************)
(* The list view: imports and network streams                              *)
(***************************************************************************)
\* handleImport with the files picked (each file is its id, `name-lastModified`).
handleImport(files) ==
    LET filtered == SelectSeq(files, LAMBDA v : ~Contains(localVideos, v)) IN
    localVideos' = localVideos \o filtered

\* `stream-${Date.now()}` of the n-th stream added: the player opens at
\* every addition, so two additions are never in the same millisecond.
StreamId(n) == 60 + n

\* handleAddNetworkStream: the stream is saved at the head of the list and
\* put in the player; the sources of the catalog do not change, so the load
\* effect does not run.
handleAddNetworkStream ==
    LET newVideo == StreamId(Len(settings.savedStreams) + 1) IN
    /\ settings' = [settings EXCEPT !.savedStreams = <<newVideo>> \o @]
    /\ currentVideo' = newVideo
    /\ curPos' = Len(localVideos) + 1

\* The batches of files the user picks.
FileBatches == {<<50>>, <<50, 51>>, <<51, 52>>}

Import(files) ==
    /\ currentVideo = Nil
    /\ handleImport(files)
    /\ UNCHANGED <<playerVars, progressHistory, currentVideo, history, lastSel,
                   catalogVars, listVars, curPos, endObs>>

AddNetworkStream ==
    /\ currentVideo = Nil
    /\ Len(settings.savedStreams) < MaxStreams
    /\ handleAddNetworkStream
    /\ PlayerMount(InitialTime(currentVideo'), 100)
    /\ UNCHANGED <<sheetVideos, loadingSheets, sheetCache, loads, toasts, lastLoad,
                   lastDone, refreshed>>
    /\ UNCHANGED <<progressHistory, history, lastSel, listVars, localVideos, endObs>>

\* Imports, streams, sources and loads; the list view is rendered while no
\* item is in the player.
NextMerge ==
    \/ \E files \in FileBatches : Import(files)
    \/ AddNetworkStream
    \/ ClosePlayer
    \/ \E url \in Urls : currentVideo = Nil /\ AddSheetUrl(url)
    \/ \E k \in 1 .. Len(loads) : \E videos \in FetchResults(loads[k].urls[loads[k].i]) :
          FetchReturn(k, videos, videos = << >>)

SpecMerge == InitCatalog /\ [][NextMerge]_vars

(***************************************************************************)
(* The player over the catalog: selection and the end of the media         *)
(***************************************************************************)
\* A click on the p-th item of the catalog in the list view.
SelectItem(p) ==
    /\ currentVideo = Nil
    /\ handleSelectVideo(allVideos[p])
    /\ curPos' = p
    /\ PlayerMount(InitialTime(allVideos[p]), 100)
    /\ UNCHANGED <<progressHistory, catalogVars, listVars, localVideos, endObs>>

\* Playback reaches the end of the media: the element pauses itself and
\* raises ended.
MediaEnded(refused) ==
    /\ currentVideo # Nil
    /\ video.duration # 0
    /\ video.currentTime = video.duration
    /\ ~video.paused
    /\ handleEnded(refused)
    /\ UNCHANGED <<progressHistory, refVars, uiVars, sess, ptr, prevDown, budget,
                   obsVars, catalogVars, listVars, localVideos>>

\* The source lists found in the stored settings: the user has added these
\* URLs in earlier sessions (the add button takes any URL, also one that is
\* in the list already).
StoredUrlLists ==
    {<<"sheetA", "sheetB">>, <<"sheetA", "sheetA", "sheetB">>}

NextEnded ==
    \/ \E k \in 1 .. Len(loads) : \E videos \in FetchResults(loads[k].urls[loads[k].i]) :
          FetchReturn(k, videos, videos = << >>)
    \/ \E p \in 1 .. Len(allVideos) : SelectItem(p)
    \/ ClosePlayer
    \/ LoadedMetadata
    \/ MediaEvent
    \/ PlaybackAdvance
    \/ TimeUpdate
    \/ \E refused \in BOOLEAN : MediaEnded(refused)

InitEnded ==
    \E U \in StoredUrlLists, auto \in BOOLEAN :
        /\ PlayerInit(Nil, 0, 100, Inputs(0, 0, 0))
        /\ AppStart(Nil, 0, << >>,
                    [DefaultSettings EXCEPT !.googleSheetUrls = U, !.autoPlayNext = auto])

SpecEnded == InitEnded /\ [][NextEnded]_vars

(***************************************************************************)
(* The player over the filtered catalog                                    *)
(***************************************************************************)
\* A click on the k-th item of the list view, which unmounts.
SelectFiltered(k) ==
    /\ currentVideo = Nil
    /\ ~pinModal.showPinModal
    /\ currentVideo' = filteredVideos[k]
    /\ curPos' = PlaceOfFiltered(k)
    /\ PlayerMount(InitialTime(filteredVideos[k]), 100)
    /\ pinModal' = [pinModal EXCEPT !.pinInput = << >>, !.isSettingNewPin = FALSE]
    /\ UNCHANGED <<progressHistory, history, lastSel, catalogVars, favorites,
                   favoritesRendered, favObs, storeVars, localVideos, endObs>>

playerFrame ==
    UNCHANGED <<progressHistory, refVars, uiVars, sess, ptr, prevDown, budget,
                obsVars, catalogVars, listVars, localVideos>>

\* The next and previous buttons of the player (and of the media session).
NextClick(refused) ==
    /\ currentVideo # Nil
    /\ onNextFiltered
    /\ handleNextVideoFiltered
    /\ videoChanged(refused)
    /\ UNCHANGED endObs
    /\ playerFrame

PrevClick(refused) ==
    /\ currentVideo # Nil
    /\ onPrevFiltered
    /\ handlePrevVideoFiltered
    /\ videoChanged(refused)
    /\ UNCHANGED endObs
    /\ playerFrame

MediaEndedFiltered(refused) ==
    /\ currentVideo # Nil
    /\ video.duration # 0
    /\ video.currentTime = video.duration
    /\ ~video.paused
    /\ handleEndedFiltered(refused)
    /\ playerFrame

\* The PIN stored by an earlier session.
StoredPin == <<"1", "2", "3", "4">>

NextFiltered ==
    \/ \E k \in 1 .. Len(loads) : \E videos \in FetchResults(loads[k].urls[loads[k].i]) :
          FetchReturn(k, videos, videos = << >>)
    \/ RestrictedToggle
    \/ \E v \in {StoredPin} : PinInputChange(v)
    \/ PinSubmit
    \/ \E k \in 1 .. Len(filteredVideos) : SelectFiltered(k)
    \/ ClosePlayer
    \/ \E refused \in BOOLEAN : NextClick(refused)
    \/ \E refused \in BOOLEAN : PrevClick(refused)
    \/ LoadedMetadata
    \/ MediaEvent
    \/ PlaybackAdvance
    \/ TimeUpdate
    \/ \E refused \in BOOLEAN : MediaEndedFiltered(refused)

\* The stored settings hold a stream, two sources (the row of the first
\* one is flagged) and a PIN; no cache record, so that the load fetches as
\* the load of this variant, which keeps no cache, always does.
InitFiltered ==
    \E enabled \in BOOLEAN :
        /\ PlayerInit(Nil, 0, 100, Inputs(0, 0, 0))
        /\ AppStart(Nil, 0, << >>,
                    [DefaultSettings EXCEPT !.googleSheetUrls = <<"sheetB", "sheetA">>,
                                            !.savedStreams = <<3>>,
                                            !.restrictedPin = StoredPin,
                                            !.enableRestrictedMode = enabled])

SpecFiltered == InitFiltered /\ [][NextFiltered]_vars

(***************************************************************************)
(* App: the reads of localStorage at mount                                 *)
(***************************************************************************)
\* saved ? JSON.parse(saved) : defaultValue.
parseSaved(item, defaultValue) ==
    [raised |-> item.kind = "malformed",
     value |-> IF item.kind = "json" THEN item.value ELSE defaultValue]

\* getStoredItem: the same inside try / catch.
getStoredItem(item, defaultValue) ==
    LET r == parseSaved(item, defaultValue) IN
    IF r.raised THEN [raised |-> FALSE, value |-> defaultValue] ELSE r

\* { ...saved, ...defaults }
Spread_defaultsLast(defaults, saved) ==
    [k \in DOMAIN defaults \cup DOMAIN saved |->
        IF k \in DOMAIN defaults THEN defaults[k] ELSE saved[k]]

\* { ...defaults, ...saved }
Spread(defaults, saved) ==
    [k \in DOMAIN defaults \cup DOMAIN saved |->
        IF k \in DOMAIN saved THEN saved[k] ELSE defaults[k]]

\* The keys the App of each variant reads in its state initialisers; the
\* App with the cache reads the cache record in its load effect.
KeysRead(variant) ==
    IF variant = "cached"
    THEN {"favorites", "history", "progress", "prefs", "settings", "cache"}
    ELSE {"favorites", "progress", "prefs", "settings"}

\* What the initialisers of the variant make of the item under key: the
\* App with the cache reads through getStoredItem, the App with restricted
\* mode parses in the initialiser itself.
ReadKey(variant, key) ==
    LET saved == IF variant = "cached"
                 THEN getStoredItem(storage[key], IF key = "settings"
                                                  THEN << >> ELSE StateDefaults[key])
                 ELSE parseSaved(storage[key], IF key = "settings"
                                               THEN << >> ELSE StateDefaults[key])
    IN
    IF key = "settings"
    THEN [saved EXCEPT !.value = Spread(DefaultSettings, @)]
    ELSE saved

\* App mounts.  An initialiser that raises ends the render: nothing is
\* shown and no effect runs.  Otherwise the persistence effects write the
\* state under the keys of the state (the cache record is written by a
\* completed load only).
Mount(variant) ==
    LET raised == \E key \in KeysRead(variant) : ReadKey(variant, key).raised
        made == [key \in DOMAIN StateDefaults |->
                    IF key \in KeysRead(variant)
                    THEN ReadKey(variant, key).value ELSE StateDefaults[key]]
    IN
    /\ boot' = [variant |-> variant, crashed |-> raised, read |-> storage,
                state |-> IF raised THEN StateDefaults ELSE made]
    /\ storage' = IF raised THEN storage
                  ELSE [key \in DOMAIN StateDefaults |->
                          IF key \in KeysRead(variant) \ {"cache"}
                          THEN Json(made[key]) ELSE storage[key]]
    /\ UNCHANGED <<playerVars, progressHistory, currentVideo, history, lastSel,
                   catalogVars, favorites, favoritesRendered, favObs, pinModal,
                   mergeVars>>

\* The values an earlier session has saved under the keys of the settings,
\* each other than the default.
SavedValues ==
    [seekTime |-> 5, autoPlayNext |-> FALSE, enableOnlineDB |-> FALSE,
     googleSheetUrls |-> <<"sheetA">>, savedStreams |-> <<3>>,
     enableRestrictedMode |-> TRUE, restrictedPin |-> <<"1", "2", "3", "4">>]

\* The settings objects found in localStorage: any subset of the keys.
SavedSettings ==
    {[k \in K |-> SavedValues[k]] : K \in SUBSET DOMAIN DefaultSettings}

\* The items found under the keys.
StoredItems(key) ==
    IF key = "settings"
    THEN {Missing(<< >>), Malformed(<< >>)} \cup {Json(v) : v \in SavedSettings}
    ELSE LET d == StateDefaults[key]
             v == IF key \in {"favorites", "history"} THEN <<1>>
                  ELSE IF key = "progress" THEN [i \in Ids |-> 2]
                  ELSE IF key = "prefs" THEN 1
                  ELSE [timestamp |-> now, data |-> <<"sheetA">>]
         IN {Missing(d), Malformed(d), Json(v)}

\* The App with the cache and the App with restricted mode.
MountCached == Mount("cached")
MountRestricted == Mount("restricted")

NextStorage ==
    \/ MountCached
    \/ MountRestricted

InitStorage ==
    /\ PlayerInit(Nil, 0, 100, Inputs(0, 0, 0))
    /\ AppState(Nil, 0, << >>, DefaultSettings)
    /\ storage \in [favorites : StoredItems("favorites"), history : StoredItems("history"),
                    progress : StoredItems("progress"), prefs : StoredItems("prefs"),
                    settings : StoredItems("settings"), cache : StoredItems("cache")]
    /\ boot = NotBooted

SpecStorage == InitStorage /\ [][NextStorage]_vars

(***************************************************************************)
(* Claims about the gestures                                               *)
(***************************************************************************)
\* C1: within one pointer session, once a move has classified the drag as
\* SEEK, VOLUME or BRIGHTNESS, every later move of that session works with
\* the same gesture type, whatever keys are pressed and whichever overlay
\* timers run in between.
C1_ClassificationIsMonotonic ==
    [][(sess.active /\ sess'.active /\ sess.type \in AxisGestures)
          => sess'.type = sess.type]_vars

\* The session made one seek, to the skip-back target, and no toggle.
SkippedBackOnce ==
    sess.seeks = 1 /\ sess.seekTo = sess.target /\ sess.toggles = 0

\* C4 as stated: a pointer-down in the left zone within DOUBLE_TAP_DELAY of
\* the previous pointer-down event, player unlocked and settings closed,
\* performs exactly one seek, to max(0, currentTime - seekTime), and the
\* session toggles play/pause at no point up to and including pointer-up.
C4_DoubleTapAfterAnyPointerDown == sess.lit => SkippedBackOnce

\* C4 amended: the same, with the window counted from the latest
\* pointer-down that was handled while the player was unlocked and was not
\* itself a double-tap skip.
C4_DoubleTapSkipsBackOnce == sess.rec => SkippedBackOnce

C4_Witness == sess.rec /\ ~sess.active /\ sess.seeks = 1 /\ sess.target > 0

HeldPast(S) == S.active /\ ~S.moved /\ now - S.t0 > LONG_PRESS_DELAY

Boosted == state.playbackRate = LONG_PRESS_RATE /\ video.playbackRate = LONG_PRESS_RATE

ReleaseRestores ==
    (ptr # NoPointer /\ ptr' = NoPointer)
        => /\ state'.playbackRate = sess.rate0
           /\ video'.playbackRate = sess.rate0
           /\ sess'.seeks = 0 /\ sess'.toggles = 0 /\ ~sess'.applied

\* C5 as stated: a pointer-down held without movement past LONG_PRESS_DELAY
\* has the rate at 2x for the rest of the hold, and its pointer-up restores
\* the rate of the pointer-down, with no seek, no volume or brightness
\* change and no play/pause toggle in the session.
C5_AnyHoldBoosts ==
    /\ [](HeldPast(sess) => Boosted)
    /\ [][HeldPast(sess) => ReleaseRestores]_vars

\* C5 amended: the same for a one-point pointer-down that is handled as a
\* normal touch start (player unlocked, not consumed as a double-tap skip).
C5_HoldBoostsAndRestores ==
    /\ [](HeldPast(sess) /\ sess.plain => Boosted)
    /\ [][HeldPast(sess) /\ sess.plain => ReleaseRestores]_vars

C5_Witness ==
    /\ ~sess.active /\ sess.engaged /\ ~sess.moved /\ sess.plain
    /\ sess.rate0 # 100 /\ state.playbackRate = sess.rate0

\* C6: once the long press has engaged, no move applies an axis gesture
\* until pointer-up, and once the pointer has moved more than
\* LONG_PRESS_CANCEL_PX before the long-press timer ran, the long press does
\* not engage in that session.
C6_LongPressExcludesAxisGesture ==
    /\ ~sess.late
    /\ (sess.far => ~sess.engaged)

\* C12: while the duration is unknown (the mirrored duration is 0, the
\* metadata have not loaded) the time-based gestures are no-ops: no seek
\* drag with its pointer-up and no double-tap skip changes the playback
\* position, mirrored or of the element, or the persisted progress.  (The
\* handlers divide by the size of the container only, never by the
\* duration, so no NaN arises.)
C12_UnknownDurationIsNeutral ==
    [][(state.duration = 0 /\ state'.duration = 0)
          => /\ state'.currentTime = state.currentTime
             /\ video'.currentTime = video.currentTime
             /\ progressHistory' = progressHistory]_vars

\* The pointer goes up in this step, after a one-point session without a
\* double-tap skip, a long press or a classified drag.
TapEnds ==
    /\ ptr # NoPointer /\ ptr' = NoPointer /\ ptr.n = 1
    /\ sess.seeks = 0 /\ ~sess.engaged /\ sess.type = NONE /\ ~sess.applied

StrictlyInsideBand(x) == 3 * Viewport.width < 10 * x /\ 10 * x < 7 * Viewport.width

PlayUntouched == video'.paused = video.paused /\ state'.playing = state.playing

\* The tap asks the element to pause if the player plays and to play if it
\* does not; outside the centre band it flips showControls instead.
TapToggles ==
    IF StrictlyInsideBand(sess.x0)
    THEN video'.paused = state.playing /\ sess'.toggles = 1
    ELSE state'.showControls = ~state.showControls /\ PlayUntouched

SlowReleaseTogglesNothing ==
    (TapEnds /\ now - sess.t0 >= TAP_MAX_DURATION)
        => state'.showControls = state.showControls /\ PlayUntouched

InDrag(t) == ptr # NoPointer /\ ptr' = ptr /\ sess.type = t /\ sess'.type = t

\* The pointer goes up in this step, after a drag of type t.
ReleaseOf(t) == ptr # NoPointer /\ ptr' = NoPointer /\ sess.type = t

LevelsUntouched ==
    /\ state'.volume = state.volume /\ video'.volume = video.volume
    /\ state'.brightness = state.brightness

\* The level the overlay of a running drag shows is the level in effect.
AppliedLive ==
    /\ (sess.active /\ sess.type = VOLUME /\ gesture.type = VOLUME)
          => state.volume = gesture.value /\ video.volume = gesture.value
    /\ (sess.active /\ sess.type = BRIGHTNESS /\ gesture.type = BRIGHTNESS)
          => state.brightness = gesture.value

\* C14: during a SEEK drag the moves do not change the playback position of
\* the element, and the pointer-up issues exactly one seek, to the pending
\* value (the time at the start of the drag plus the accumulated delta,
\* clamped to [0, duration]).  During VOLUME and BRIGHTNESS drags every move
\* applies the value, and the pointer-up applies nothing further.
C14_SeekCommitsOnRelease ==
    /\ [][/\ InDrag(SEEK) => video'.currentTime = video.currentTime
          /\ ReleaseOf(SEEK) => /\ sess'.seeks = 1 /\ sess'.seekTo = sess.pending
                                /\ video'.currentTime = ElementClamp(sess.pending)
                                /\ LevelsUntouched
          /\ (ReleaseOf(VOLUME) \/ ReleaseOf(BRIGHTNESS))
                => /\ LevelsUntouched /\ sess'.seeks = 0
                   /\ video'.currentTime = video.currentTime]_vars
    /\ []AppliedLive

(***************************************************************************)
(* Claims about the sleep timer                                            *)
(***************************************************************************)
\* C2: with a sleep timer armed at N >= 1 minutes and playback playing
\* continuously since, after exactly N one-minute ticks playback has been
\* paused exactly once by the timer and the timer is disarmed (null).
C2_SleepTimerEndsPlayback ==
    (sleep.cont /\ sleep.n >= 1 /\ sleep.ticks = sleep.n)
        => /\ state.sleepTimer = Nil
           /\ sleep.pauses = 1
           /\ video.paused

\* The sleep menu has set the timer in this step.
Rearmed == sleep'.n # sleep.n \/ sleep'.ticks < sleep.ticks

\* C3: while playback is paused the remaining minutes of an armed sleep
\* timer never decrease; they decrease only by ticks that occur while
\* playing (arming the timer anew from the menu sets them).
C3_NoDecrementWhilePaused ==
    [][(/\ state.sleepTimer # Nil /\ state'.sleepTimer # Nil
        /\ state'.sleepTimer < state.sleepTimer
        /\ ~Rearmed)
          => state.playing /\ sleep'.ticks = sleep.ticks + 1]_vars

C3_Witness ==
    /\ ~state.playing /\ video.paused
    /\ state.sleepTimer # Nil /\ state.sleepTimer > 0
    /\ sleep.ticks > 0

(***************************************************************************)
(* Claims about the persisted progress                                     *)
(***************************************************************************)
\* C9: after any sequence of time updates and seeks the persisted progress
\* of the current item lags the mirrored current time by at most one second
\* (every time update that finds them further apart persists the time, and
\* every handleSeek persists its target).
C9_ProgressFollowsPlayback ==
    Abs(state.currentTime - progressHistory[currentVideo]) <= 1

(***************************************************************************)
(* Claims about the remote catalog                                         *)
(***************************************************************************)
LoadRuns == lastLoad'.runs # lastLoad.runs

OneAttemptEach(D) == \A k \in 1 .. Len(D.urls) : D.att[k] = 1

\* C7 as stated: a run of the catalog load that finds a cache record at most
\* one hour old with a non-empty item list shows exactly the cached items
\* and issues no fetch; a run that finds a record older than one hour makes
\* exactly one fetch attempt per configured source URL.
C7_AnyLoadFollowsTheCache ==
    /\ [][LoadRuns /\ FreshCache
            => /\ sheetVideos' = sheetCache.data
               /\ ~lastLoad'.fetching
               /\ Len(loads') <= Len(loads)]_vars
    /\ [](lastDone.stale => OneAttemptEach(lastDone))

\* C7 amended: the same for a run with the online catalog enabled and at
\* least one source URL configured.
C7_GatedLoadFollowsTheCache ==
    /\ [][LoadRuns /\ FreshCache /\ lastLoad'.gate
            => /\ sheetVideos' = sheetCache.data
               /\ ~lastLoad'.fetching
               /\ Len(loads') <= Len(loads)]_vars
    /\ [](lastDone.stale /\ lastDone.gate => OneAttemptEach(lastDone))

C7_Witness ==
    /\ lastLoad.served /\ Len(sheetVideos) > 0
    /\ now - sheetCache.timestamp = CACHE_DURATION
    /\ lastDone.stale /\ lastDone.gate /\ Len(lastDone.urls) = MaxUrls

\* C8 as stated: a manual refresh removes the cache record, whatever it
\* holds, and the next run of the catalog load fetches instead of serving
\* cached items.
C8_RefreshForcesFetch ==
    /\ refreshed = "yes" => sheetCache = NoCache
    /\ lastLoad.afterRefresh # "no" => lastLoad.fetching /\ ~lastLoad.served

\* C8 amended: ... and the next run of the catalog load, if the online
\* catalog is enabled with at least one source URL and no load that was in
\* flight has written the cache record since the refresh, fetches instead
\* of serving cached items.
C8_RefreshForcesFetchIfNotRewritten ==
    /\ refreshed = "yes" => sheetCache = NoCache
    /\ (lastLoad.afterRefresh = "yes" /\ lastLoad.gate)
          => lastLoad.fetching /\ ~lastLoad.served

C8_Witness ==
    /\ lastLoad.afterRefresh = "yes" /\ lastLoad.fetching
    /\ lastDone.gate /\ ~lastDone.stale /\ Len(sheetVideos) > 0

\* C16: when a catalog load that attempts a fetch completes with every
\* configured source failed and no cache record exists, the user is given an
\* error notification.  (A failing source contributes [] and the loop goes
\* on, so it neither makes the load raise nor discards the items of the
\* other sources: the load record keeps them in allVideos.)
C16_AllSourcesFailedNotifies ==
    (lastDone.allFailed /\ lastDone.noCache) => lastDone.notified

(***************************************************************************)
(* Claims about the watch history                                          *)
(***************************************************************************)
NoDuplicates(list) ==
    \A i, j \in 1 .. Len(list) : i # j => list[i] # list[j]

\* C10: after any sequence of selections the watch history holds no id
\* twice and at most HISTORY_CAP ids, and lists the ids in the order of their
\* last selection, the most recently selected first.
C10_HistoryIsRecencyList ==
    /\ NoDuplicates(history)
    /\ Len(history) <= HISTORY_CAP
    /\ Len(history) = Min(HISTORY_CAP, Len(lastSel))
    /\ \A i \in 1 .. Len(history) : history[i] = lastSel[i]

C10_Witness ==
    /\ Len(lastSel) > HISTORY_CAP
    /\ Len(history) = HISTORY_CAP
    /\ history[1] = 2 /\ history[2] = 51

(***************************************************************************)
(* Claims about restricted mode                                            *)
(***************************************************************************)
Enabling == ~settings.enableRestrictedMode /\ settings'.enableRestrictedMode
PinSubmitted == pinModal'.ev = "submit" /\ pinModal'.k # pinModal.k
PinToggled == pinModal'.ev = "toggle" /\ pinModal'.k # pinModal.k

\* C17: restricted mode goes from disabled to enabled only in a PIN
\* submission that, with no PIN stored, stores the submitted PIN of 4 to 6
\* digits in the same update, or, with a PIN stored, submits that PIN; a
\* submission that does not enable the mode leaves the settings as they
\* were; the switch disables the mode at once, without the dialog.
C17_EnabledOnlyByPin ==
    [][/\ Enabling =>
            /\ PinSubmitted
            /\ IF settings.restrictedPin = NoPin
               THEN /\ settings'.restrictedPin = pinModal.pinInput
                    /\ Len(pinModal.pinInput) \in PIN_MIN_LENGTH .. PIN_MAX_LENGTH
                    /\ IsDigits(pinModal.pinInput)
               ELSE /\ pinModal.pinInput = settings.restrictedPin
                    /\ settings'.restrictedPin = settings.restrictedPin
       /\ (PinSubmitted /\ ~Enabling) => settings' = settings
       /\ (PinToggled /\ settings.enableRestrictedMode) =>
            /\ ~settings'.enableRestrictedMode
            /\ ~pinModal'.showPinModal
      ]_vars

\* The mode is enabled by the stored PIN, after it was disabled by the switch.
C17_Witness ==
    /\ settings.enableRestrictedMode
    /\ pinModal.ev = "submit"
    /\ ~pinModal.isSettingNewPin
    /\ pinModal.pinInput = settings.restrictedPin

(***************************************************************************)
(* Claims about the filtered catalog                                       *)
(***************************************************************************)
\* C18: while restricted mode is disabled, no flagged item is in the
\* catalog handed to the list view, and no step (a next or previous click,
\* the auto-advance at the end of the media) makes a flagged item the
\* current one.
C18_FlaggedItemsHidden ==
    /\ [](~settings.enableRestrictedMode =>
            \A k \in 1 .. Len(filteredVideos) : ~isRestricted(filteredVideos[k]))
    /\ [][(/\ ~settings.enableRestrictedMode
           /\ currentVideo # Nil
           /\ currentVideo' # currentVideo
           /\ currentVideo' # Nil) => ~isRestricted(currentVideo')]_vars

\* With the mode disabled the media of the stream have ended, and the
\* auto-advance has passed over the flagged row to the row after it.
C18_Witness ==
    /\ ~settings.enableRestrictedMode
    /\ allVideos = <<3, 2, 1>>
    /\ endObs.k = 1 /\ endObs.auto /\ endObs.pos = 1 /\ endObs.catalog = <<3, 1>>
    /\ currentVideo = 1 /\ curPos = 3

(***************************************************************************)
(* Claims about the merged catalog                                         *)
(***************************************************************************)
\* C19: after any sequence of imports, stream additions, source-URL
\* additions and loads, no two items of the merged catalog have the same id.
C19_IdsUnique ==
    \A i, j \in 1 .. Len(allVideos) : allVideos[i] = allVideos[j] => i = j

(***************************************************************************)
(* Claims about loads side by side                                         *)
(***************************************************************************)
LoadStarts == lastLoad'.runs # lastLoad.runs
LoadCompletes == Len(loads') < Len(loads)
BothCompleted == loads = << >> /\ lastDone.fetched

\* C20 as stated: a load that starts leaves the loads in flight as they
\* are, and once the loads have completed the remote list shown and the
\* items of the cache record (none, if there is no record) are those of the
\* load that completed last.
C20_LastCompletedWins ==
    /\ [][LoadStarts => \A k \in 1 .. Len(loads) : loads'[k] = loads[k]]_vars
    /\ [](BothCompleted =>
            /\ sheetVideos = lastDone.items
            /\ sheetCache.data = lastDone.items)

\* C20: a load that starts leaves the loads in flight as they are; once the
\* loads have completed the remote list shown is that of the load that
\* completed last; a load that completes with items writes the cache record
\* with them, and one that completes with no item leaves the cache record
\* as it was.
C20_LastWriteWins ==
    /\ [][LoadStarts => \A k \in 1 .. Len(loads) : loads'[k] = loads[k]]_vars
    /\ [](BothCompleted => sheetVideos = lastDone.items)
    /\ [][LoadCompletes =>
            sheetCache' = IF lastDone'.items # << >>
                          THEN [timestamp |-> now, data |-> lastDone'.items]
                          ELSE sheetCache]_vars

\* Both loads have completed, the one for the older source list last: its
\* items are shown and cached, though the settings name other sources.
C20_Witness ==
    /\ BothCompleted
    /\ lastLoad.fetching
    /\ settings.enableOnlineDB
    /\ lastDone.urls # settings.googleSheetUrls
    /\ lastDone.items # << >>
    /\ sheetVideos = lastDone.items
    /\ sheetCache.data = lastDone.items

(***************************************************************************)
(* Claims about localStorage                                               *)
(***************************************************************************)
\* C21: the settings loaded from a saved object with any subset of the keys
\* have every key of the defaults; a key of the saved object has the saved
\* value, every other key its default.
C21_DefaultsUnderSaved ==
    (boot.variant = "cached" /\ boot.read.settings.kind = "json") =>
        LET saved == boot.read.settings.value
            loaded == boot.state.settings
        IN /\ DOMAIN DefaultSettings \subseteq DOMAIN loaded
           /\ \A k \in DOMAIN saved : loaded[k] = saved[k]
           /\ \A k \in DOMAIN DefaultSettings \ DOMAIN saved :
                loaded[k] = DefaultSettings[k]

\* Settings saved with two of the keys are loaded.
C21_Witness ==
    /\ boot.variant = "cached"
    /\ boot.read.settings.kind = "json"
    /\ DOMAIN boot.read.settings.value = {"seekTime", "savedStreams"}
    /\ boot.state.settings.seekTime = SavedValues.seekTime
    /\ boot.state.settings.autoPlayNext = DefaultSettings.autoPlayNext

\* C22: a mount raises no error, and a key that is missing or holds
\* malformed JSON is read as its default.
C22_ReadsNeverRaise ==
    boot.variant # "none" =>
        /\ ~boot.crashed
        /\ \A key \in KeysRead(boot.variant) :
             boot.read[key].kind # "json" => boot.state[key] = StateDefaults[key]

(***************************************************************************)
(* Claims about the classification of a drag                               *)
(***************************************************************************)
\* The type the claim gives a move by dx, dy of a pointer that went down at x0.
TypeByOffset(dx, dy, x0) ==
    IF Abs(dx) > Abs(dy) /\ Abs(dx) > GESTURE_MIN_PX THEN SEEK
    ELSE IF Abs(dy) >= Abs(dx) /\ Abs(dy) > GESTURE_MIN_PX
    THEN (IF x0 * 2 < Viewport.width THEN BRIGHTNESS ELSE VOLUME)
    ELSE NONE

\* A move of the pointer is handled in this step.
Moves == ptr # NoPointer /\ ptr' # NoPointer /\ ptr'.k # ptr.k

\* The move classifies as the claim says, or changes no value.
ClassifiesByOffset ==
    LET type == TypeByOffset(ptr'.dx, ptr'.dy, ptr.x) IN
    /\ gesture'.type = type
    /\ type = NONE => UNCHANGED <<state, video, gesture, progressHistory>>

\* C23 as stated: every move of a pointer session with no gesture set
\* classifies by its offset from the pointer-down position.
C23_EveryMoveClassifies ==
    [][(Moves /\ gesture = NoGesture) => ClassifiesByOffset]_vars

\* C23: in a one-point session that began as a normal touch start, with the
\* player unlocked, the settings panel closed, the long press not engaged
\* and no gesture set, a move classifies by its offset from the
\* pointer-down position: SEEK, BRIGHTNESS or VOLUME exactly as the claim
\* says, otherwise no gesture and no value changed.
C23_MoveClassifies ==
    [][(/\ Moves /\ gesture = NoGesture
        /\ sess.plain /\ ~state.isLocked /\ ~showSettings /\ ~isLongPressingRef)
       => ClassifiesByOffset]_vars

\* A drag from the middle of the width has become a VOLUME drag by a move
\* of 21 px down and 10 px across.
C23_Witness ==
    /\ ptr # NoPointer /\ ptr.x * 2 = Viewport.width
    /\ ptr.dx = 10 /\ ptr.dy = 0 - 21
    /\ sess.plain /\ ~state.isLocked /\ ~showSettings /\ ~isLongPressingRef
    /\ gesture.type = VOLUME

(***************************************************************************)
(* Claims about the double-tap cue                                         *)
(***************************************************************************)
\* The timeouts set by double taps that have not run yet.  Each double tap
\* sets one, due DOUBLE_TAP_CUE_DELAY after it, so the one of the double tap
\* that set the cue on screen is the one due last.
CueTimers == {t \in timers : t.kind = "cue"}

\* The cue leaves the screen in this step.
CueCleared == doubleTapAnimation # Null /\ doubleTapAnimation' = Null

\* C24: the cue is cleared by the timeout of the double tap that set it,
\* DOUBLE_TAP_CUE_DELAY after that double tap and not earlier: when the cue
\* leaves the screen no timeout of a later double tap is still pending, and
\* while the cue is on screen the timeout of its double tap is pending.
C24_CueClearedAfterDelay ==
    /\ [][CueCleared => CueTimers' = {}]_vars
    /\ [](doubleTapAnimation # Null => CueTimers # {})

\* Two double taps less than the delay apart: the cue of the second is on
\* screen and the timeouts of both are pending.
C24_TwoCuesPending ==
    /\ doubleTapAnimation # Null
    /\ \E t, u \in CueTimers : t.due < u.due

(***************************************************************************)
(* Claims about the manual refresh                                         *)
(***************************************************************************)
\* handleManualRefresh runs in this step.
Refreshes == refreshed # "yes" /\ refreshed' = "yes"

\* C25: a manual refresh with the online catalog enabled and at least one
\* source URL configured starts a new run of the catalog load, which
\* fetches, in the same step and with no further action of the user.
C25_RefreshStartsLoad ==
    [][(Refreshes /\ LoadGate(settings))
       => (lastLoad'.runs # lastLoad.runs /\ lastLoad'.fetching)]_vars

(***************************************************************************)
(* Claims about the range of the mirrored time                             *)
(***************************************************************************)
\* C26: the mirrored current time is never negative and, once the duration
\* is known, never greater than the duration.
C26_TimeWithinMedia ==
    /\ state.currentTime >= 0
    /\ state.duration > 0 => state.currentTime <= state.duration

(***************************************************************************)
(* Claims about the remote items while the catalog is off                  *)
(***************************************************************************)
\* The items of the remote catalog in the merged catalog: allVideos ends
\* with the rows of sheetVideos, and nothing else in it comes from a sheet.
RemoteItems == SubSeq(allVideos, Len(allVideos) - Len(sheetVideos) + 1, Len(allVideos))

\* C27: with the online catalog disabled or no source URL configured, and
\* no load in flight, the merged catalog holds no item of the remote
\* catalog.
C27_NoRemoteItemsWhenOff ==
    (~LoadGate(settings) /\ loads = << >>) => RemoteItems = << >>

(***************************************************************************)
(* Claims about the history of the item that becomes current               *)
(***************************************************************************)
\* An item becomes the current one in this step.
BecomesCurrent == currentVideo' # currentVideo /\ currentVideo' # Nil

\* C28: every time an item becomes current its id is at the head of the
\* watch history.
C28_CurrentHeadsHistory ==
    [][BecomesCurrent => (history' # << >> /\ Head(history') = currentVideo')]_vars

(***************************************************************************)
(* Claims about the locked player                                          *)
(***************************************************************************)
\* A pointer-down, pointer-move or pointer-up, or a key, is handled in this
\* step.
PointerStep == ptr' # ptr
KeyStep == budget'.keys # budget.keys

\* What the locked player keeps: the play state, the position, the volume,
\* the brightness, the rate and the zoom, of the component and of the
\* element.
LockedValues ==
    <<state.playing, state.currentTime, state.volume, state.brightness,
      state.playbackRate, state.scale,
      video.paused, video.currentTime, video.volume, video.playbackRate>>

\* No long-press timeout is set in this step.
NoLongPressArmed ==
    /\ \A t \in timers' : t.kind = "longPress" => t \in timers
    /\ longPressTimerRef' = longPressTimerRef
    /\ isLongPressingRef' = isLongPressingRef

\* C29: while the player is locked a pointer-down, pointer-move, pointer-up
\* or key leaves the play state, the position, the volume, the brightness,
\* the rate and the zoom unchanged, arms no long-press timer and leaves the
\* player locked; the flag is cleared by the lock control only.
C29_LockedIgnoresInput ==
    /\ [][(state.isLocked /\ (PointerStep \/ KeyStep))
          => (UNCHANGED LockedValues /\ NoLongPressArmed /\ state'.isLocked)]_vars
    /\ [][(state.isLocked /\ ~state'.isLocked) => budget'.clicks # budget.clicks]_vars

\* The locked player has been given both keys and a pinch whose fingers
\* went down and moved while it was locked.
C29_Witness ==
    /\ state.isLocked
    /\ budget.keys = 0 /\ budget.clicks = MaxLockedClicks - 1
    /\ ptr # NoPointer /\ ptr.n = 2 /\ ptr.k = 1
    /\ touchStartRef = NoTouch

(***************************************************************************)
(* Claims about the remote items after a change of the sources             *)
(***************************************************************************)
\* The row of a sheet is named after the sheet it was parsed from.
FromConfiguredSource(row) ==
    \E j \in 1 .. Len(settings.googleSheetUrls) : settings.googleSheetUrls[j] = row

\* C30: once every load that followed a change of the source list has
\* completed, each remote item shown was parsed from one of the sources
\* configured now.
C30_ItemsOfConfiguredSources ==
    loads = << >> => \A k \in 1 .. Len(sheetVideos) : FromConfiguredSource(sheetVideos[k])

EndedNow == endObs'.k # endObs.k

\* The place of the current item in the catalog (0: it is not in it), and
\* whether an item follows it.
PlaceOfCurrent == IF curPos # 0 THEN curPos ELSE IndexOfId(allVideos, currentVideo)

HasFollower == PlaceOfCurrent # 0 /\ PlaceOfCurrent < Len(allVideos)

\* C15: when the media ends with auto-advance enabled and the current item
\* not the last of the catalog, the current item becomes the item that
\* follows it in the catalog; otherwise the current item stays the same,
\* playing is false and the controls are visible.
C15_EndedAdvancesOrStops ==
    [][EndedNow =>
         IF settings.autoPlayNext /\ HasFollower
         THEN currentVideo' = allVideos[PlaceOfCurrent + 1]
         ELSE /\ currentVideo' = currentVideo
              /\ ~state'.playing /\ state'.showControls]_vars

====
